---- MODULE Spec2Model ----
(***************************************************************************)
(* The measurement core of the scientiajoints add-on: Point, Vector3D,     *)
(* Face and Edge of geometry.py, and the stroke parsing and batch          *)
(* processing of MeasurementsParser in parser.py.                          *)
(*                                                                         *)
(* Numbers.  A Python float is modelled by a sign and an integer           *)
(* magnitude, so that -0.0 and +0.0 are different values with the same     *)
(* numeric value, as in IEEE 754.  The range of a float is scaled down to  *)
(* FloatMax: "x ** 2" raises OverflowError when the square exceeds it.     *)
(* Angles are kept in whole degrees: every angle the code computes is      *)
(* replaced by its floor.  The calibration arithmetic of the parser adds   *)
(* and subtracts whole degrees, which commutes with the floor.             *)
(***************************************************************************)
EXTENDS Integers, Sequences, FiniteSets

\* ------------------------------------------------------------- bounds
\* longest list of point groups (or of host strokes) considered
MaxGroups == 2
\* longest point group (or host stroke) considered
MaxPts == 4
\* the largest finite float of the scaled-down float range
FloatMax == 1000
\* the largest coordinate of a host point, a 32-bit float, in that range
F32Max == 6
\* the precision of a float, scaled down as well: 360.0 added to a negative
\* angle whose tangent is below 1 / RoundOff rounds to 360.0 (for a Python
\* float the angle is below 2.8 * 10^-14 degrees)
RoundOff == 20

\* ------------------------------------------------------------- floats
\* A float is [s, m, r]: sign s (1 or -1) and magnitude m when r is FALSE
\* (a whole number), and magnitude sqrt(m) / 100 when r is TRUE (what
\* edge2face stores: a length and its products with a sine and a cosine).
\* A magnitude above FloatMax is infinite, and nan has the sign 0.
\* Products and sums overflow to an infinity and never raise; only
\* "** 2" raises.  Infinities and nan come out of the cross product of
\* two vectors with out-of-range products; the angle and length functions
\* are modelled on finite floats.
PosZero == [s |-> 1, m |-> 0, r |-> FALSE]
NegZero == [s |-> -1, m |-> 0, r |-> FALSE]
NaN == [s |-> 0, m |-> 0, r |-> FALSE]

Inf(s) == [s |-> s, m |-> FloatMax + 1, r |-> FALSE]

IsNaN(f) == f.s = 0

IsInf(f) == f.m > FloatMax

\* the float of an integer (an integer literal or a host coordinate)
FNum(n) ==
    IF n < 0 THEN [s |-> -1, m |-> -n, r |-> FALSE]
    ELSE [s |-> 1, m |-> n, r |-> FALSE]

\* the numeric value of a float; -0.0 and 0.0 both have value 0
Val(f) == f.s * f.m

\* the square of the numeric value, in units of 10^-4 when r is TRUE; the
\* components of one vector are all of the same form
Sq(f) == IF f.r THEN f.m ELSE f.m * f.m

\* unary minus: flips the sign, also of a zero
FNeg(f) == [f EXCEPT !.s = -f.s]

\* a + b: an exact zero sum is -0.0 only when both operands are -0.0
\* inf + (-inf) is nan, and a sum out of range is an infinity
FAdd(a, b) ==
    LET v == Val(a) + Val(b)
    IN  IF IsNaN(a) \/ IsNaN(b) THEN NaN
        ELSE IF IsInf(a) /\ IsInf(b) THEN (IF a.s = b.s THEN a ELSE NaN)
        ELSE IF IsInf(a) THEN a
        ELSE IF IsInf(b) THEN b
        ELSE IF v > FloatMax THEN Inf(1)
        ELSE IF v < -FloatMax THEN Inf(-1)
        ELSE IF v # 0 THEN FNum(v)
        ELSE IF a.s = -1 /\ b.s = -1 THEN NegZero ELSE PosZero

\* a - b
FSub(a, b) == FAdd(a, FNeg(b))

\* a * b: the sign of a zero product is the product of the signs;
\* inf * 0 is nan, and a product out of range is an infinity
FMul(a, b) ==
    IF IsNaN(a) \/ IsNaN(b) THEN NaN
    ELSE IF (IsInf(a) /\ b.m = 0) \/ (IsInf(b) /\ a.m = 0) THEN NaN
    ELSE IF a.m * b.m > FloatMax THEN Inf(a.s * b.s)
    ELSE [s |-> a.s * b.s, m |-> a.m * b.m, r |-> FALSE]

\* x ** 2 on a float: OverflowError when the result is out of range
Pow2Raises(f) == Sq(f) > (IF f.r THEN FloatMax * 10000 ELSE FloatMax)

\* F applied to the value of x: x is evaluated once, whatever F does
\* with it
Eval(F(_), x) == CHOOSE r \in { F(v) : v \in {x} } : TRUE

\* floor of the square root of a natural number, by bisection: the
\* greatest r in lo..hi-1 with r * r <= n, for t = <<n, lo, hi>>
RECURSIVE SqrtBetween(_)
SqrtBetween(t) ==
    LET n == t[1]
        lo == t[2]
        hi == t[3]
        mid == (lo + hi) \div 2
    IN  IF hi - lo <= 1 THEN lo
        ELSE IF mid * mid <= n THEN Eval(SqrtBetween, <<n, mid, hi>>)
        ELSE Eval(SqrtBetween, <<n, lo, mid>>)

\* (46340 is the largest root whose square is a 32-bit integer)
ISqrt(n) ==
    Eval(SqrtBetween, <<n, 0, IF n < 46340 THEN n + 1 ELSE 46340>>)

\* ------------------------------------------------------------- angles
\* floor(tan(d degrees) * 10^6) for d = 0..45, at index d + 1
TanE6 ==
    << 0, 17455, 34920, 52407, 69926, 87488, 105104, 122784, 140540,
       158384, 176326, 194380, 212556, 230868, 249328, 267949, 286745,
       305730, 324919, 344327, 363970, 383864, 404026, 424474, 445228,
       466307, 487732, 509525, 531709, 554309, 577350, 600860, 624869,
       649407, 674508, 700207, 726542, 753554, 781285, 809784, 839099,
       869286, 900404, 932515, 965688, 1000000 >>

\* floor(tan(d degrees)^2 * 10^6) for d = 0..45, at index d + 1
Tan2E6 ==
    << 0, 304, 1219, 2746, 4889, 7654, 11046, 15076, 19751, 25085, 31091,
       37783, 45180, 53300, 62164, 71796, 82222, 93471, 105572, 118561,
       132474, 147351, 163237, 180178, 198228, 217442, 237883, 259616,
       282714, 307258, 333333, 361033, 390461, 421730, 454961, 490290,
       527864, 567843, 610407, 655750, 704088, 755659, 810727, 869584,
       932554, 1000000 >>

\* tan(d) <= p / q for the table tab of tan (or of tan squared, with p and
\* q squared), p >= 0, q > 0, 0 <= d <= 89; above 45 degrees through
\* tan(d) = 1 / tan(90 - d)
TanAtMost(tab, d, p, q) ==
    IF d <= 45 THEN tab[d + 1] * q <= p * 1000000
    ELSE p > 0 /\ q * 1000000 <= tab[90 - d + 1] * p

RECURSIVE AtanBetween(_)
\* the largest d in t[4]..t[5] with tan(d) <= t[2] / t[3] by the table
\* t[1], by bisection
AtanBetween(t) ==
    IF t[4] = t[5] THEN t[4]
    ELSE IF TanAtMost(t[1], (t[4] + t[5] + 1) \div 2, t[2], t[3])
    THEN Eval(AtanBetween, <<t[1], t[2], t[3], (t[4] + t[5] + 1) \div 2, t[5]>>)
    ELSE Eval(AtanBetween, <<t[1], t[2], t[3], t[4], (t[4] + t[5] + 1) \div 2 - 1>>)

\* floor of atan(p / q) in degrees, p >= 0 and q >= 0 not both 0; the
\* quotient of two large numbers is taken to three digits
FloorAtan(tab, p, q) ==
    LET d == (IF p > q THEN p ELSE q) \div 2101 + 1
    IN  IF q \div d = 0 THEN 90
        ELSE Eval(AtanBetween, <<tab, p \div d, q \div d, 0, 89>>)

\* floor of math.degrees(math.atan2(a, b)) % 360 on floats a and b.
\* atan2 of a zero a is +-0 when b is positive or +0.0 and +-pi when b is
\* negative or -0.0; "% 360" maps -180 to 180 and -0.0 to 0.0.  For a
\* negative angle x, "x % 360" is the float sum x + 360.0, which is 360.0
\* itself when x is too small to change it.
Atan2Mod360(a, b) ==
    LET va == Val(a)
        vb == Val(b)
        tab == IF a.r THEN Tan2E6 ELSE TanE6
        small == IF a.r THEN a.m * RoundOff < b.m \div RoundOff
                 ELSE a.m * RoundOff < b.m
    IN  IF va = 0 THEN (IF b.s = 1 THEN 0 ELSE 180)
        ELSE IF va > 0 THEN
            (IF vb >= 0 THEN FloorAtan(tab, a.m, b.m)
             ELSE 90 + FloorAtan(tab, b.m, a.m))
        ELSE
            (IF vb < 0 THEN 180 + FloorAtan(tab, a.m, b.m)
             ELSE IF small THEN 360
             ELSE 270 + FloorAtan(tab, b.m, a.m))

\* ------------------------------------------------------------- Point
\* A point-like object is [has, x, y, z]: has says whether the object has
\* coordinates at all; an object without them raises AttributeError on
\* p.x.  Coordinates are integers of the host scene.
Pt(x, y, z) == [has |-> TRUE, x |-> x, y |-> y, z |-> z]

\* Point.__init__: copies the coordinates, and falls back to (0, 0, 0)
\* when the source object has none
PointInit(vector) == IF vector.has THEN vector ELSE Pt(0, 0, 0)

\* math.cos and math.sin of a whole number of quarter turns, to the
\* hundredth (math.cos(math.radians(90)) is 6.1e-17)
Cos(azimuth) == IF azimuth = 0 THEN 1 ELSE IF azimuth = 180 THEN -1 ELSE 0

Sin(azimuth) == IF azimuth = 90 THEN 1 ELSE IF azimuth = 270 THEN -1 ELSE 0

\* Point.rotated(center, azimuth): [raised, x, y, z], the coordinates of
\* the new Point in hundredths.  A point without coordinates raises
\* AttributeError and a square out of range OverflowError.
PointRotated(self, center, azimuth) ==
    LET dx == center.x - self.x
        dy == center.y - self.y
        length_c_a == ISqrt((dx * dx + dy * dy) * 10000)
    IN  IF ~(self.has /\ center.has) \/ dx * dx > FloatMax
                \/ dy * dy > FloatMax
        THEN [raised |-> TRUE, x |-> 0, y |-> 0, z |-> 0]
        ELSE [raised |-> FALSE,
              x |-> length_c_a * Cos(azimuth),
              y |-> length_c_a * Sin(azimuth),
              z |-> self.z * 100]

\* ------------------------------------------------------------- Vector3D
ZeroVector == [x |-> PosZero, y |-> PosZero, z |-> PosZero]

\* Vector3D(point1, point2) = point2 - point1; any exception inside the
\* constructor is caught there and leaves the zero vector
Vector3DInit(point1, point2) ==
    IF point1.has /\ point2.has
    THEN [x |-> FSub(FNum(point2.x), FNum(point1.x)),
          y |-> FSub(FNum(point2.y), FNum(point1.y)),
          z |-> FSub(FNum(point2.z), FNum(point1.z))]
    ELSE ZeroVector

\* Vector3D.multiply_minus: the vector after the in-place negation
MultiplyMinus(v) == [x |-> FNeg(v.x), y |-> FNeg(v.y), z |-> FNeg(v.z)]

\* Vector3D.azimuth negating a vector whose z is zero as well
AzimuthNegatesAtZero(v) ==
    LET w == IF Val(v.z) <= 0 THEN MultiplyMinus(v) ELSE v
    IN  [v |-> w, az |-> Atan2Mod360(w.x, w.y)]

\* Vector3D.azimuth: [v: the vector after the call, az: the value returned]
Azimuth(v) ==
    LET w == IF Val(v.z) < 0 THEN MultiplyMinus(v) ELSE v
    IN  [v |-> w, az |-> Atan2Mod360(w.x, w.y)]

\* Vector3D.dip: [raised, val]; the squares of x and y may overflow
Dip(v) ==
    IF Pow2Raises(v.x) \/ Pow2Raises(v.y) THEN [raised |-> TRUE, val |-> 0]
    ELSE LET h2 == Sq(v.x) + Sq(v.y)
             val == IF h2 = 0 THEN (IF v.z.s = 1 THEN 0 ELSE 180)
                    ELSE IF v.z.m = 0 THEN 90
                    ELSE IF v.z.s = 1 THEN FloorAtan(Tan2E6, h2, Sq(v.z))
                    ELSE 90 + FloorAtan(Tan2E6, Sq(v.z), h2)
         IN  [raised |-> FALSE, val |-> val]

\* Vector3D.length measured in the X-Y plane only
LengthInPlan(v) ==
    IF Pow2Raises(v.x) \/ Pow2Raises(v.y) \/ Pow2Raises(v.z)
    THEN [raised |-> TRUE, val |-> 0]
    ELSE [raised |-> FALSE,
          val |-> ISqrt((Sq(v.x) + Sq(v.y)) * (IF v.x.r THEN 1 ELSE 10000))]

\* Vector3D.length in hundredths: [raised, val]
Length(v) ==
    IF Pow2Raises(v.x) \/ Pow2Raises(v.y) \/ Pow2Raises(v.z)
    THEN [raised |-> TRUE, val |-> 0]
    ELSE [raised |-> FALSE,
          val |-> ISqrt((Sq(v.x) + Sq(v.y) + Sq(v.z))
                            * (IF v.x.r THEN 1 ELSE 10000))]

\* Vector3D.__mul__ without the minus sign of the middle component
CrossNoMinus(a, b) ==
    [x |-> FSub(FMul(a.y, b.z), FMul(b.y, a.z)),
     y |-> FSub(FMul(a.x, b.z), FMul(b.x, a.z)),
     z |-> FSub(FMul(a.x, b.y), FMul(b.x, a.y))]

\* Vector3D.__mul__: the cross product, a new vector
Cross(a, b) ==
    [x |-> FSub(FMul(a.y, b.z), FMul(b.y, a.z)),
     y |-> FNeg(FSub(FMul(a.x, b.z), FMul(b.x, a.z))),
     z |-> FSub(FMul(a.x, b.y), FMul(b.x, a.y))]

\* round(100 * sin(d degrees)) for d = 0..90, at index d + 1
SinE2 ==
    << 0, 2, 3, 5, 7, 9, 10, 12, 14, 16, 17, 19, 21,
       22, 24, 26, 28, 29, 31, 33, 34, 36, 37, 39, 41, 42,
       44, 45, 47, 48, 50, 52, 53, 54, 56, 57, 59, 60, 62,
       63, 64, 66, 67, 68, 69, 71, 72, 73, 74, 75, 77, 78,
       79, 80, 81, 82, 83, 84, 85, 86, 87, 87, 88, 89, 90,
       91, 91, 92, 93, 93, 94, 95, 95, 96, 96, 97, 97, 97,
       98, 98, 98, 99, 99, 99, 99, 100, 100, 100, 100, 100, 100 >>

\* a sine that is never negative
SinDegUnsigned(azimuth) ==
    [s |-> 1,
     m |-> SinE2[(IF azimuth <= 90 THEN azimuth
                  ELSE IF azimuth <= 180 THEN 180 - azimuth
                  ELSE IF azimuth <= 270 THEN azimuth - 180
                  ELSE 360 - azimuth) + 1]]

\* math.sin(math.radians(azimuth)) for an azimuth of 0..360 degrees:
\* [s, m], the sign and the magnitude in hundredths.  The float sine of pi
\* is 1.2e-16, a positive number that disappears in every later result,
\* and of 2 pi it is -2.4e-16, which an azimuth of 360.0 keeps visible:
\* the smallest negative sine.
SinDeg(azimuth) ==
    IF azimuth = 360 THEN [s |-> -1, m |-> 1]
    ELSE IF azimuth <= 90 THEN [s |-> 1, m |-> SinE2[azimuth + 1]]
    ELSE IF azimuth <= 180 THEN [s |-> 1, m |-> SinE2[180 - azimuth + 1]]
    ELSE IF azimuth <= 270 THEN [s |-> -1, m |-> SinE2[azimuth - 180 + 1]]
    ELSE [s |-> -1, m |-> SinE2[360 - azimuth + 1]]

\* a cosine that is the sine of the same angle
CosDegAsSin(azimuth) == SinDeg(azimuth)

\* math.cos(math.radians(azimuth)) likewise: the float cosine of pi / 2 is
\* 6.1e-17 and of 3 pi / 2 it is -1.8e-16
CosDeg(azimuth) ==
    IF azimuth <= 90 THEN [s |-> 1, m |-> SinE2[90 - azimuth + 1]]
    ELSE IF azimuth <= 180 THEN [s |-> -1, m |-> SinE2[azimuth - 90 + 1]]
    ELSE IF azimuth <= 270 THEN [s |-> -1, m |-> SinE2[270 - azimuth + 1]]
    ELSE [s |-> 1, m |-> SinE2[azimuth - 270 + 1]]

\* Vector3D.edge2face: [raised, v: the vector after the call].  The
\* vector is canonicalized by azimuth(); z becomes minus the X-Y length
\* sqrt(h / 10^4), and x and y become z times the sine and the cosine of
\* the azimuth, each product taken to the model's precision.
Edge2Face(v) ==
    LET c == Azimuth(v).v
        azimuth == Azimuth(v).az
        h == (Sq(c.x) + Sq(c.y)) * 10000
        sin == SinDeg(azimuth)
        cos == CosDeg(azimuth)
    IN  IF Pow2Raises(c.x) \/ Pow2Raises(c.y) THEN [raised |-> TRUE, v |-> c]
        ELSE [raised |-> FALSE,
              v |-> [x |-> [s |-> -sin.s, r |-> TRUE,
                            m |-> ((h \div 100) * sin.m * sin.m) \div 100],
                     y |-> [s |-> -cos.s, r |-> TRUE,
                            m |-> ((h \div 100) * cos.m * cos.m) \div 100],
                     z |-> [s |-> -1, m |-> h, r |-> TRUE]]]

\* Vector3D.degrees_with: floor of the angle between a and b in degrees;
\* every exception (overflow of a square, division by a zero length) is
\* caught and gives 0.  cos^2(d) = 1 / (1 + tan^2(d)) up to 45 degrees and
\* t / (1 + t) with t = tan^2(90 - d) above; tan^2 is taken to 10^-4.
\* cos^2(d) >= num / den (geq) or cos^2(d) <= num / den, 0 <= d <= 90
CosSqCmp(geq, d, num, den) ==
    LET t == Tan2E6[(IF d <= 45 THEN d ELSE 90 - d) + 1] \div 100
        lhs == IF d <= 45 THEN den * 10000 ELSE den * t
        rhs == num * (10000 + t)
    IN  IF geq THEN lhs >= rhs ELSE lhs <= rhs

\* cos(d) >= dot / sqrt(l2), for 0 <= d <= 180 and l2 > 0
CosAtLeast(d, dot, l2) ==
    IF d <= 90 THEN dot <= 0 \/ CosSqCmp(TRUE, d, dot * dot, l2)
    ELSE dot < 0 /\ CosSqCmp(FALSE, 180 - d, dot * dot, l2)

\* floor of acos(t[1] / sqrt(t[2])) in degrees, 0 on a zero division
RECURSIVE AcosBetween(_)
\* the largest d in t[3]..t[4] with cos(d) >= t[1] / sqrt(t[2])
AcosBetween(t) ==
    IF t[3] = t[4] THEN t[3]
    ELSE IF CosAtLeast((t[3] + t[4] + 1) \div 2, t[1], t[2])
    THEN Eval(AcosBetween, <<t[1], t[2], (t[3] + t[4] + 1) \div 2, t[4]>>)
    ELSE Eval(AcosBetween, <<t[1], t[2], t[3], (t[3] + t[4] + 1) \div 2 - 1>>)

FloorAcos(t) ==
    IF t[2] = 0 THEN 0 ELSE Eval(AcosBetween, <<t[1], t[2], 0, 180>>)

\* Vector3D.degrees_with taking the cosine of a zero-length pair as 0
DegreesWithRightAngle(a, b) ==
    IF \E f \in {a.x, a.y, a.z, b.x, b.y, b.z} : Pow2Raises(f) THEN 0
    ELSE LET dot == Val(a.x) * Val(b.x) + Val(a.y) * Val(b.y)
                        + Val(a.z) * Val(b.z)
             l2 == (Sq(a.x) + Sq(a.y) + Sq(a.z))
                     * (Sq(b.x) + Sq(b.y) + Sq(b.z))
         IN  IF l2 = 0 THEN 90 ELSE Eval(FloorAcos, <<dot, l2>>)

\* Vector3D.degrees_with: the angle in whole degrees, 0.0 when anything
\* raised (a division by a zero length, a square out of range)
DegreesWith(a, b) ==
    IF \E f \in {a.x, a.y, a.z, b.x, b.y, b.z} : Pow2Raises(f) THEN 0
    ELSE LET dot == Val(a.x) * Val(b.x) + Val(a.y) * Val(b.y)
                        + Val(a.z) * Val(b.z)
             l2 == (Sq(a.x) + Sq(a.y) + Sq(a.z))
                     * (Sq(b.x) + Sq(b.y) + Sq(b.z))
         IN  Eval(FloorAcos, <<dot, l2>>)

\* ------------------------------------------------------------- objects
\* An entity is a record of the attributes a constructor may set; attrs is
\* the set of attributes that exist on the object.  The value of center
\* is not kept, only whether it was set.  A constructor runs its
\* statements in order on [failed, obj]: a statement that raises leaves
\* obj as it was and sets failed, and the statements after it are skipped.
Ok(o) == [failed |-> FALSE, obj |-> o]

Fail(o) == [failed |-> TRUE, obj |-> o]

\* statement F after the statements that led to st
Then(F(_), st) == Eval(LAMBDA t : IF t.failed THEN t ELSE F(t.obj), st)

\* ------------------------------------------------------------- Face
NoFace ==
    [raised |-> FALSE, attrs |-> {}, point1 |-> Pt(0, 0, 0),
     point2 |-> Pt(0, 0, 0), point3 |-> Pt(0, 0, 0), ab |-> ZeroVector,
     azimuth |-> 0, dip |-> 0, area |-> 0, rotated_azimuth |-> 0,
     degree |-> 0]

\* Face.calculate_center raises AttributeError when a point has no x, y, z
FaceCenterRaises(o) == ~(o.point1.has /\ o.point2.has /\ o.point3.has)

\* Face.ab_vector
AbVector(o) ==
    Cross(Vector3DInit(o.point2, o.point1), Vector3DInit(o.point3, o.point1))

\* Face.calculate_degree
CalculateDegree(o) ==
    DegreesWith(Vector3DInit(o.point2, o.point1),
                Vector3DInit(o.point2, o.point3))

\* Face.calculate_area without the division by two
CalculateAreaWhole(o) ==
    LET len == Length(o.ab)
    IN  [raised |-> len.raised, val |-> len.val]

\* Face.calculate_area: [raised, val], half the length of ab
CalculateArea(o) ==
    LET len == Length(o.ab)
    IN  [raised |-> len.raised, val |-> len.val \div 2]

\* self.point1 = point1; self.point2 = point2; self.point3 = point3
FaceSetPoints(point1, point2, point3) ==
    Ok([NoFace EXCEPT !.attrs = {"point1", "point2", "point3"},
                      !.point1 = point1, !.point2 = point2,
                      !.point3 = point3])

\* self.center = self.calculate_center()
FaceSetCenter(o) ==
    IF FaceCenterRaises(o) THEN Fail(o)
    ELSE Ok([o EXCEPT !.attrs = @ \cup {"center"}])

\* self.ab = self.ab_vector()
FaceSetAb(o) == Ok([o EXCEPT !.attrs = @ \cup {"ab"}, !.ab = AbVector(o)])

\* self.azimuth = self.ab.azimuth(), which may negate ab in place
FaceSetAzimuth(o) ==
    Ok([o EXCEPT !.attrs = @ \cup {"azimuth"},
                 !.ab = Azimuth(o.ab).v, !.azimuth = Azimuth(o.ab).az])

\* self.dip = self.ab.dip()
FaceSetDip(o) ==
    IF Dip(o.ab).raised THEN Fail(o)
    ELSE Ok([o EXCEPT !.attrs = @ \cup {"dip"}, !.dip = Dip(o.ab).val])

\* self.area = self.calculate_area()
FaceSetArea(o) ==
    IF CalculateArea(o).raised THEN Fail(o)
    ELSE Ok([o EXCEPT !.attrs = @ \cup {"area"},
                      !.area = CalculateArea(o).val])

\* self.rotated_azimuth = 0.0
FaceSetRotated(o) ==
    Ok([o EXCEPT !.attrs = @ \cup {"rotated_azimuth"},
                 !.rotated_azimuth = 0])

\* self.degree = self.calculate_degree()
FaceSetDegree(o) ==
    Ok([o EXCEPT !.attrs = @ \cup {"degree"}, !.degree = CalculateDegree(o)])

\* the try block of Face.__init__
FaceTry(point1, point2, point3) ==
    Then(FaceSetDegree, Then(FaceSetRotated, Then(FaceSetArea,
    Then(FaceSetDip, Then(FaceSetAzimuth, Then(FaceSetAb,
    Then(FaceSetCenter, FaceSetPoints(point1, point2, point3))))))))

\* The except clause of Face.__init__ on the outcome t of the try block:
\* it formats self.calculate_center() into the log message, which raises
\* again when the points have no coordinates, and that exception leaves
\* the constructor.
FaceExcept(t) ==
    IF t.failed THEN [t.obj EXCEPT !.raised = FaceCenterRaises(t.obj)]
    ELSE t.obj

\* Face.__init__
FaceInit(point1, point2, point3) ==
    Eval(FaceExcept, FaceTry(point1, point2, point3))

\* ------------------------------------------------------------- Edge
NoEdge ==
    [raised |-> FALSE, attrs |-> {}, point1 |-> Pt(0, 0, 0),
     point2 |-> Pt(0, 0, 0), a |-> ZeroVector, length |-> 0,
     azimuth |-> 0, dip |-> 0, edge_azimuth |-> 0, edge_dip |-> 0,
     rotated_azimuth |-> 0]

\* Edge.calculate_center raises AttributeError when a point has no x, y, z
EdgeCenterRaises(o) == ~(o.point1.has /\ o.point2.has)

\* self.point1 = point1; self.point2 = point2
EdgeSetPoints(point1, point2) ==
    Ok([NoEdge EXCEPT !.attrs = {"point1", "point2"},
                      !.point1 = point1, !.point2 = point2])

\* self.center = self.calculate_center()
EdgeSetCenter(o) ==
    IF EdgeCenterRaises(o) THEN Fail(o)
    ELSE Ok([o EXCEPT !.attrs = @ \cup {"center"}])

\* self.a = Vector3D(point1, point2)
EdgeSetA(o) ==
    Ok([o EXCEPT !.attrs = @ \cup {"a"},
                 !.a = Vector3DInit(o.point1, o.point2)])

\* self.length = self.a.length()
EdgeSetLength(o) ==
    IF Length(o.a).raised THEN Fail(o)
    ELSE Ok([o EXCEPT !.attrs = @ \cup {"length"},
                      !.length = Length(o.a).val])

\* self.azimuth = self.a.azimuth(), which may negate a in place
EdgeSetAzimuth(o) ==
    Ok([o EXCEPT !.attrs = @ \cup {"azimuth"},
                 !.a = Azimuth(o.a).v, !.azimuth = Azimuth(o.a).az])

\* self.dip = self.a.dip()
EdgeSetDip(o) ==
    IF Dip(o.a).raised THEN Fail(o)
    ELSE Ok([o EXCEPT !.attrs = @ \cup {"dip"}, !.dip = Dip(o.a).val])

\* self.a.edge2face()
EdgeEdge2Face(o) ==
    IF Edge2Face(o.a).raised THEN Fail([o EXCEPT !.a = Edge2Face(o.a).v])
    ELSE Ok([o EXCEPT !.a = Edge2Face(o.a).v])

\* self.edge_azimuth = self.a.azimuth()
EdgeSetEdgeAzimuth(o) ==
    Ok([o EXCEPT !.attrs = @ \cup {"edge_azimuth"},
                 !.a = Azimuth(o.a).v, !.edge_azimuth = Azimuth(o.a).az])

\* self.edge_dip = self.a.dip()
EdgeSetEdgeDip(o) ==
    IF Dip(o.a).raised THEN Fail(o)
    ELSE Ok([o EXCEPT !.attrs = @ \cup {"edge_dip"},
                      !.edge_dip = Dip(o.a).val])

\* self.rotated_azimuth = 0.0
EdgeSetRotated(o) ==
    Ok([o EXCEPT !.attrs = @ \cup {"rotated_azimuth"},
                 !.rotated_azimuth = 0])

\* the try block of an Edge.__init__ that calls edge2face on the vector
\* before it reads length, azimuth and dip
EdgeTryFaceFirst(point1, point2) ==
    Then(EdgeSetRotated, Then(EdgeSetEdgeDip, Then(EdgeSetEdgeAzimuth,
    Then(EdgeSetDip, Then(EdgeSetAzimuth, Then(EdgeSetLength,
    Then(EdgeEdge2Face, Then(EdgeSetA,
    Then(EdgeSetCenter, EdgeSetPoints(point1, point2))))))))))

\* the try block of Edge.__init__
EdgeTry(point1, point2) ==
    Then(EdgeSetRotated, Then(EdgeSetEdgeDip, Then(EdgeSetEdgeAzimuth,
    Then(EdgeEdge2Face, Then(EdgeSetDip, Then(EdgeSetAzimuth,
    Then(EdgeSetLength, Then(EdgeSetA,
    Then(EdgeSetCenter, EdgeSetPoints(point1, point2))))))))))

\* the except clause of Edge.__init__, as in Face.__init__
EdgeExcept(t) ==
    IF t.failed THEN [t.obj EXCEPT !.raised = EdgeCenterRaises(t.obj)]
    ELSE t.obj

\* Edge.__init__
EdgeInit(point1, point2) == Eval(EdgeExcept, EdgeTry(point1, point2))

\* ------------------------------------------------------------- inputs
\* the points the inputs are built from
O == Pt(0, 0, 0)
Z == Pt(0, 0, 1)
Z2 == Pt(0, 0, 2)
A == Pt(6, 1, 0)
C == Pt(1, 1, 1)
\* a point whose coordinate squares overflow
H == Pt(40, 0, 0)
\* a point almost straight in +Y of O, a little on its -X side
T == Pt(-1, 25, 0)
\* an object without coordinates
NoXYZ == [has |-> FALSE, x |-> 0, y |-> 0, z |-> 0]

\* Point patterns; a group is the first n points of a pattern, which
\* repeats when n exceeds its length.  General has three points in general
\* position.  The Special patterns start with points on one line, with
\* coincident points, with a point whose squares overflow, and with an
\* object without coordinates.
General == <<A, O, Z, C>>

Special ==
    { <<O, Z, Z2, A>>, <<O, O, O, A>>, <<H, O, Z, A>>, <<NoXYZ, O, Z, A>> }

Prefix(pat, n) == [i \in 1..n |-> pat[((i - 1) % Len(pat)) + 1]]

\* the point groups a caller may store in the parser: General at every
\* size, the Special patterns at the sizes of an edge and of a face
Groups ==
    { Prefix(General, n) : n \in 0..MaxPts }
        \cup { Prefix(pat, n) : pat \in Special, n \in 2..3 }
        \cup { <<O, T>> }

\* A host point: it has coordinates, and they are 32-bit floats, far
\* below the magnitude whose square overflows a Python float.
Abs(n) == IF n < 0 THEN -n ELSE n

IsHostPoint(p) ==
    /\ p.has
    /\ Abs(p.x) <= F32Max /\ Abs(p.y) <= F32Max /\ Abs(p.z) <= F32Max

\* the strokes the host may hold: at least one point, all host points
HostStrokes ==
    { g \in Groups : Len(g) >= 1 /\ \A i \in 1..Len(g) : IsHostPoint(g[i]) }

\* all lists of at most MaxGroups elements of S
ListsOf(S) == UNION { [1..n -> S] : n \in 0..MaxGroups }

\* calibration angles as arguments of the core: in range and out of range
AzArgs == { 0, 30, 350, 800 }

\* calibration angles of the scene properties az_real and az_model,
\* which the host keeps in [0, 360]
SceneAz == { 0, 30, 350, 360 }

\* ------------------------------------------------------------- parser
\* MeasurementsParser.parse_dimensions on the host's annotation data:
\* [edges, faces, discarded].  Without the "Annotations" data or the
\* "RulerData3D" layer both lists stay empty.  Every stroke becomes a list
\* of Points; 3 points make a face group, 2 an edge group, and any other
\* stroke is dropped with a warning (discarded: the dropped strokes).
PointObjects(stroke) == [i \in 1..Len(stroke) |-> PointInit(stroke[i])]

PointGroups(all, n) ==
    LET sel == SelectSeq(all, LAMBDA st : Len(st) = n)
    IN  [i \in 1..Len(sel) |-> PointObjects(sel[i])]

\* ParseDimensions with "len(points) >= 3" for a face
ParseDimensionsAtLeast(hasLayer, all) ==
    IF ~hasLayer
    THEN [edges |-> <<>>, faces |-> <<>>, discarded |-> <<>>]
    ELSE [edges |-> PointGroups(all, 2),
          faces |-> [i \in 1..Len(SelectSeq(all, LAMBDA st : Len(st) >= 3))
                       |-> PointObjects(
                               SelectSeq(all, LAMBDA st : Len(st) >= 3)[i])],
          discarded |-> SelectSeq(all, LAMBDA st : Len(st) < 2)]

ParseDimensions(hasLayer, all) ==
    IF ~hasLayer
    THEN [edges |-> <<>>, faces |-> <<>>, discarded |-> <<>>]
    ELSE [edges |-> PointGroups(all, 2),
          faces |-> PointGroups(all, 3),
          discarded |-> SelectSeq(all, LAMBDA st : Len(st) \notin {2, 3})]

\* EdgeDelta without the "+ 360" of a negative difference
EdgeDeltaNoWrap(ar, am) ==
    LET pre_delta == ar - am
    IN  IF pre_delta < 0 THEN pre_delta ELSE pre_delta % 360

\* EdgeDelta that forgets to subtract az_model
EdgeDeltaIgnoresModel(ar, am) ==
    LET pre_delta == ar
    IN  IF pre_delta < 0 THEN pre_delta + 360 ELSE pre_delta % 360

\* the calibration delta of get_processed_edges
EdgeDelta(ar, am) ==
    LET pre_delta == ar - am
    IN  IF pre_delta < 0 THEN pre_delta + 360 ELSE pre_delta % 360

\* the calibration delta of get_processed_faces
FaceDelta(ar, am) ==
    LET pre_delta == ar - am
    IN  IF pre_delta < 0 THEN pre_delta + 360 ELSE pre_delta % 360

\* the rotated azimuth get_processed_edges stores
EdgeRotated(azimuth, delta) ==
    LET rot_azimuth == azimuth + delta
    IN  IF rot_azimuth >= 360 THEN rot_azimuth - 360
        ELSE IF rot_azimuth < 0 THEN rot_azimuth + 360
        ELSE rot_azimuth

\* FaceRotated without the "- 360" of a sum of 360 or more
FaceRotatedNoWrap(azimuth, delta) ==
    LET rot_azimuth == azimuth + delta
    IN  IF rot_azimuth < 0 THEN rot_azimuth + 360 ELSE rot_azimuth

\* the rotated azimuth get_processed_faces stores
FaceRotated(azimuth, delta) ==
    LET rot_azimuth == azimuth + delta
    IN  IF rot_azimuth >= 360 THEN rot_azimuth - 360
        ELSE IF rot_azimuth < 0 THEN rot_azimuth + 360
        ELSE rot_azimuth

\* EdgeStep without the try and except around the body of the loop
EdgeStepUncaught(edge_points, delta) ==
    LET Rotate(edge) ==
            IF edge.raised \/ "azimuth" \notin edge.attrs
            THEN [kind |-> "raise",
                  ctor |-> IF edge.raised THEN "raised" ELSE "returned",
                  obj |-> edge]
            ELSE [kind |-> "appended", ctor |-> "returned",
                  obj |-> [edge EXCEPT
                      !.attrs = @ \cup {"rotated_azimuth"},
                      !.rotated_azimuth = EdgeRotated(edge.azimuth, delta)]]
    IN  IF Len(edge_points) >= 2
        THEN Eval(Rotate, EdgeInit(edge_points[1], edge_points[2]))
        ELSE [kind |-> "warning", ctor |-> "none", obj |-> NoEdge]

\* One pass of the loop of get_processed_edges: [kind, ctor, obj].
\* kind is "appended", "warning" (too few points) or "error" (an exception
\* caught and logged by the loop's except clause); "raise" would be an
\* exception the loop does not catch.  ctor tells how Edge.__init__ ended.
\* Reading edge.azimuth raises AttributeError when the constructor failed
\* before setting it.
EdgeStep(edge_points, delta) ==
    LET Rotate(edge) ==
            IF edge.raised
            THEN [kind |-> "error", ctor |-> "raised", obj |-> edge]
            ELSE IF "azimuth" \notin edge.attrs
            THEN [kind |-> "error", ctor |-> "returned", obj |-> edge]
            ELSE [kind |-> "appended", ctor |-> "returned",
                  obj |-> [edge EXCEPT
                      !.attrs = @ \cup {"rotated_azimuth"},
                      !.rotated_azimuth = EdgeRotated(edge.azimuth, delta)]]
    IN  IF Len(edge_points) >= 2
        THEN Eval(Rotate, EdgeInit(edge_points[1], edge_points[2]))
        ELSE [kind |-> "warning", ctor |-> "none", obj |-> NoEdge]

\* FaceStep with "len(face_points) == 3"
FaceStepExact(face_points, delta) ==
    LET Rotate(face) ==
            IF face.raised
            THEN [kind |-> "error", ctor |-> "raised", obj |-> face]
            ELSE IF "azimuth" \notin face.attrs
            THEN [kind |-> "error", ctor |-> "returned", obj |-> face]
            ELSE [kind |-> "appended", ctor |-> "returned",
                  obj |-> [face EXCEPT
                      !.attrs = @ \cup {"rotated_azimuth"},
                      !.rotated_azimuth = FaceRotated(face.azimuth, delta)]]
    IN  IF Len(face_points) = 3
        THEN Eval(Rotate, FaceInit(face_points[1], face_points[2],
                                   face_points[3]))
        ELSE [kind |-> "warning", ctor |-> "none", obj |-> NoFace]

\* One pass of the loop of get_processed_faces
FaceStep(face_points, delta) ==
    LET Rotate(face) ==
            IF face.raised
            THEN [kind |-> "error", ctor |-> "raised", obj |-> face]
            ELSE IF "azimuth" \notin face.attrs
            THEN [kind |-> "error", ctor |-> "returned", obj |-> face]
            ELSE [kind |-> "appended", ctor |-> "returned",
                  obj |-> [face EXCEPT
                      !.attrs = @ \cup {"rotated_azimuth"},
                      !.rotated_azimuth = FaceRotated(face.azimuth, delta)]]
    IN  IF Len(face_points) >= 3
        THEN Eval(Rotate, FaceInit(face_points[1], face_points[2],
                                   face_points[3]))
        ELSE [kind |-> "warning", ctor |-> "none", obj |-> NoFace]

RECURSIVE LoopAborting(_, _)
\* Loop with the try around the whole loop: the first error ends the call
LoopAborting(steps, i) ==
    IF i > Len(steps) THEN [ret |-> <<>>, log |-> <<>>, escaped |-> FALSE]
    ELSE LET st == steps[i]
             entry == [kind |-> st.kind, ctor |-> st.ctor]
             After(rest) ==
                 [ret |-> IF rest.escaped THEN <<>>
                          ELSE (IF st.kind = "appended" THEN <<st.obj>>
                                ELSE <<>>) \o rest.ret,
                  log |-> <<entry>> \o rest.log,
                  escaped |-> rest.escaped]
         IN  IF st.kind \in {"raise", "error"}
             THEN [ret |-> <<>>, log |-> <<entry>>, escaped |-> TRUE]
             ELSE Eval(After, LoopAborting(steps, i + 1))

\* The loop over the steps from the i-th on: [ret, log, escaped].  ret is
\* the list built, log the kind and ctor of every pass made, and escaped
\* says that an exception left the loop: no later pass is made then and
\* the call returns nothing.
RECURSIVE Loop(_, _)
Loop(steps, i) ==
    IF i > Len(steps) THEN [ret |-> <<>>, log |-> <<>>, escaped |-> FALSE]
    ELSE LET st == steps[i]
             entry == [kind |-> st.kind, ctor |-> st.ctor]
             After(rest) ==
                 [ret |-> IF rest.escaped THEN <<>>
                          ELSE (IF st.kind = "appended" THEN <<st.obj>>
                                ELSE <<>>) \o rest.ret,
                  log |-> <<entry>> \o rest.log,
                  escaped |-> rest.escaped]
         IN  IF st.kind = "raise"
             THEN [ret |-> <<>>, log |-> <<entry>>, escaped |-> TRUE]
             ELSE Eval(After, Loop(steps, i + 1))

\* MeasurementsParser.get_processed_edges on the stored edge groups:
\* [call, delta], the outcome of its loop and the delta it computed
ProcessedEdges(groups, ar, am) ==
    LET From(steps) == [call |-> Loop(steps, 1), delta |-> EdgeDelta(ar, am)]
    IN  Eval(From, [i \in 1..Len(groups)
                       |-> EdgeStep(groups[i], EdgeDelta(ar, am))])

\* MeasurementsParser.get_processed_faces on the stored face groups:
\* [call, delta]
ProcessedFaces(groups, ar, am) ==
    LET From(steps) == [call |-> Loop(steps, 1), delta |-> FaceDelta(ar, am)]
    IN  Eval(From, [i \in 1..Len(groups)
                       |-> FaceStep(groups[i], FaceDelta(ar, am))])

\* ------------------------------------------------------------- state
VARIABLES
    layer,      \* the host has the annotation layer "RulerData3D"
    strokes,    \* the host's strokes on that layer, in drawing order
    edges,      \* parser.edges
    faces,      \* parser.faces
    discarded,  \* strokes the last parse_dimensions dropped with a warning
    called,     \* the last core call: "none", "parse", "edges", "faces"
    az_real,    \* its arguments
    az_model,
    delta,      \* the calibration delta it computed
    result,     \* the list it returned
    passes,     \* the log of its loop: kind and ctor of every pass
    escaped,    \* an exception left the call
    previous,   \* what the call before it returned, when that was the
                \* same call on the same parser: [some, ret]
    vec,        \* the Vector3D a caller of the geometry holds
    op,         \* the geometry operation that caller ran last
    args,       \* its operands as they were before it
    ret,        \* what it returned
    is_saved,   \* bpy.data.is_saved: the host file has been saved
    export,     \* the last execution of an export operator
    real_time_update_histogram,     \* the two scene flags
    real_time_update_stereonet,
    running,    \* _running of the two real-time operator classes
    timers,     \* the window manager's timers, counted by class
    handlers,   \* its modal handlers: operators running, by class
    shown,      \* the chart in the image editor: the last one drawn
    rt,         \* the last call of a real-time operator or callback
    scene,      \* the host's render, world, material0, camera and ruler
                \* layer settings
    my_light_settings,  \* scene.my_light_settings
    my_ruler_settings,  \* scene.my_ruler_settings
    tg          \* the last execution of a toggle operator, and the
                \* settings before it and the one before

exportVars == << is_saved, export >>

rtVars ==
    << real_time_update_histogram, real_time_update_stereonet, running,
       timers, handlers, shown, rt >>

toggleVars == << scene, my_light_settings, my_ruler_settings, tg >>

\* the state of the host's user interface and of the operators
uiVars == << exportVars, rtVars, toggleVars >>

geomVars == << vec, op, args, ret >>

coreVars ==
    << layer, strokes, edges, faces, discarded, called, az_real, az_model,
       delta, result, passes, escaped, previous >>

vars ==
    << layer, strokes, edges, faces, discarded, called, az_real, az_model,
       delta, result, passes, escaped, previous, vec, op, args, ret,
       uiVars >>

NoPrevious == [some |-> FALSE, ret |-> <<>>]

\* no export operator has run
NoExport ==
    [op |-> "none", prompt |-> FALSE, wrote |-> FALSE, rows |-> 0,
     report |-> "none", ret |-> "none"]

\* the real-time operator classes, by the chart they redraw
Classes == {"histogram", "stereonet"}

\* no real-time operator or callback has been called
NoRt ==
    [op |-> "none", call |-> "none", event |-> "none", ret |-> "none",
     drew |-> FALSE, report |-> "none"]

\* Settings of the host as the user keeps them.  Colours are tuples and
\* fractional numbers are in hundredths; host floats and the add-on's
\* FloatProperty fields are both 32-bit floats, host integers and
\* IntProperty fields both 32-bit integers, so an assignment between them
\* keeps the value.
UserRender ==
    [engine |-> "CYCLES", samples |-> 16, raytracing |-> FALSE,
     film_transparent |-> FALSE]

UserWorld == [color |-> <<5, 5, 5, 100>>, strength |-> 100]

UserMaterial ==
    [kind |-> "ok", metallic |-> 30, roughness |-> 50, specular_ior |-> 20]

UserCamera ==
    [has |-> TRUE, lens |-> 3500, clip_start |-> 50, clip_end |-> 100000]

UserRuler ==
    [color |-> <<0, 0, 100>>, opacity |-> 50, thickness |-> 5, hide |-> TRUE]

\* the settings of the layer "RulerData3D" as the host creates it; the
\* scene holds them while it has no such layer
NewRuler ==
    [color |-> <<0, 0, 0>>, opacity |-> 100, thickness |-> 3, hide |-> FALSE]

\* no material0 (kind "none"), or one without a Principled BSDF node
\* ("no_bsdf"); no camera
NoMaterial(kind) ==
    [kind |-> kind, metallic |-> 0, roughness |-> 0, specular_ior |-> 0]

NoCamera == [has |-> FALSE, lens |-> 0, clip_start |-> 0, clip_end |-> 0]

\* the property groups as register() creates them: every field at the
\* default of its property type
NoLightSettings ==
    [is_custom_settings |-> FALSE, engine |-> "", samples |-> 0,
     raytracing |-> FALSE, film_transparent |-> FALSE,
     world_color |-> <<0, 0, 0, 0>>, world_strength |-> 0,
     material_metallic |-> 0, material_roughness |-> 0,
     material_specular_ior |-> 0, focal_length |-> 0, clip_start |-> 0,
     clip_end |-> 0]

NoRulerSettings ==
    [is_custom_ruler |-> FALSE, color |-> <<0, 0, 0>>, opacity |-> 0,
     thickness |-> 0]

\* a new host file, and no operator run yet
NoUi ==
    /\ scene = [render |-> UserRender, world |-> UserWorld,
                material |-> UserMaterial, camera |-> UserCamera,
                ruler |-> NewRuler]
    /\ my_light_settings = NoLightSettings
    /\ my_ruler_settings = NoRulerSettings
    /\ tg = [op |-> "none", ret |-> "none", report |-> "none", pair |-> 0,
             before |-> scene]
    /\ is_saved = FALSE
    /\ export = NoExport
    /\ real_time_update_histogram = FALSE
    /\ real_time_update_stereonet = FALSE
    /\ running = [c \in Classes |-> FALSE]
    /\ timers = [c \in Classes |-> 0]
    /\ handlers = [c \in Classes |-> 0]
    /\ shown = "none"
    /\ rt = NoRt

\* no caller of the geometry: the default Vector3D(), nothing run
NoGeom ==
    /\ vec = ZeroVector
    /\ op = "none"
    /\ args = <<>>
    /\ ret = <<>>
    /\ NoUi

NoCall ==
    /\ called = "none"
    /\ az_real = 0
    /\ az_model = 0
    /\ delta = 0
    /\ result = <<>>
    /\ passes = <<>>
    /\ escaped = FALSE
    /\ previous = NoPrevious
    /\ NoGeom

\* ---------------------------------------------------- the core, called
\* get_processed_edges appending to a list the parser keeps
GetProcessedEdgesKeeping(ar, am) ==
    \E out \in {ProcessedEdges(edges, ar, am)} :
        /\ called' = "edges"
        /\ az_real' = ar
        /\ az_model' = am
        /\ delta' = out.delta
        /\ result' = result \o out.call.ret
        /\ passes' = out.call.log
        /\ escaped' = out.call.escaped
        /\ previous' = IF called = "edges" /\ az_real = ar /\ az_model = am
                       THEN [some |-> TRUE, ret |-> result]
                       ELSE NoPrevious
        /\ UNCHANGED << geomVars, uiVars >>
        /\ UNCHANGED << layer, strokes, edges, faces, discarded >>

\* get_processed_edges(az_real = ar, az_model = am)
GetProcessedEdges(ar, am) ==
    \E out \in {ProcessedEdges(edges, ar, am)} :
        /\ called' = "edges"
        /\ az_real' = ar
        /\ az_model' = am
        /\ delta' = out.delta
        /\ result' = out.call.ret
        /\ passes' = out.call.log
        /\ escaped' = out.call.escaped
        /\ previous' = IF called = "edges" /\ az_real = ar /\ az_model = am
                       THEN [some |-> TRUE, ret |-> result]
                       ELSE NoPrevious
        /\ UNCHANGED << geomVars, uiVars >>
        /\ UNCHANGED << layer, strokes, edges, faces, discarded >>

\* get_processed_faces(az_real = ar, az_model = am)
GetProcessedFaces(ar, am) ==
    \E out \in {ProcessedFaces(faces, ar, am)} :
        /\ called' = "faces"
        /\ az_real' = ar
        /\ az_model' = am
        /\ delta' = out.delta
        /\ result' = out.call.ret
        /\ passes' = out.call.log
        /\ escaped' = out.call.escaped
        /\ previous' = IF called = "faces" /\ az_real = ar /\ az_model = am
                       THEN [some |-> TRUE, ret |-> result]
                       ELSE NoPrevious
        /\ UNCHANGED << geomVars, uiVars >>
        /\ UNCHANGED << layer, strokes, edges, faces, discarded >>

\* A parser whose lists hold any groups: the core's input as spec section
\* 4.6 takes it, a list of point groups of any sizes.
InitCore ==
    /\ layer = FALSE
    /\ strokes = <<>>
    /\ discarded = <<>>
    /\ \E gs \in ListsOf(Groups) :
          \/ edges = gs /\ faces = <<>>
          \/ edges = <<>> /\ faces = gs
    /\ NoCall

\* the caller drops the returned list
Discard ==
    /\ called # "none"
    /\ called' = "none"
    /\ az_real' = 0
    /\ az_model' = 0
    /\ delta' = 0
    /\ result' = <<>>
    /\ passes' = <<>>
    /\ escaped' = FALSE
    /\ previous' = NoPrevious
    /\ UNCHANGED << geomVars, uiVars >>
    /\ UNCHANGED << layer, strokes, edges, faces, discarded >>

NextCore ==
    \/ \E ar \in AzArgs, am \in AzArgs :
          /\ called = "none"
          /\ \/ GetProcessedEdges(ar, am)
             \/ GetProcessedFaces(ar, am)
    \/ Discard

SpecCore == InitCore /\ [][NextCore]_vars

\* ------------------------------------------- the core, called repeatedly
\* the calibration angles of the repeated calls: <<az_real, az_model>>
RepeatArgs == { <<0, 0>>, <<30, 350>>, <<350, 30>> }

\* the same call once more on the same parser, the caller holding the
\* list the call before returned
CallAgain ==
    \/ called = "edges" /\ GetProcessedEdges(az_real, az_model)
    \/ called = "faces" /\ GetProcessedFaces(az_real, az_model)

NextRepeat ==
    \/ \E a \in RepeatArgs :
          /\ called = "none"
          /\ \/ GetProcessedEdges(a[1], a[2])
             \/ GetProcessedFaces(a[1], a[2])
    \/ CallAgain

SpecRepeat == InitCore /\ [][NextRepeat]_vars

\* ------------------------------------------------- the add-on, running
\* The host gains the annotation layer
HostAddLayer ==
    /\ called = "none"
    /\ ~layer
    /\ layer' = TRUE
    /\ UNCHANGED previous
    /\ tg' = [tg EXCEPT !.pair = 0, !.before = scene]
    /\ UNCHANGED << geomVars, exportVars, rtVars, scene, my_light_settings,
                    my_ruler_settings >>
    /\ UNCHANGED << strokes, edges, faces, discarded, called, az_real,
                    az_model, delta, result, passes, escaped >>

\* The user removes the annotation layer with its strokes
HostRemoveLayer ==
    /\ called = "none"
    /\ layer
    /\ layer' = FALSE
    /\ strokes' = <<>>
    /\ UNCHANGED previous
    /\ scene' = [scene EXCEPT !.ruler = NewRuler]
    /\ tg' = [tg EXCEPT !.pair = 0, !.before = scene']
    /\ UNCHANGED << geomVars, exportVars, rtVars, my_light_settings,
                    my_ruler_settings >>
    /\ UNCHANGED << edges, faces, discarded, called, az_real, az_model,
                    delta, result, passes, escaped >>

\* The user draws a stroke with the ruler
HostDraw(stroke) ==
    /\ called = "none"
    /\ layer
    /\ Len(strokes) < MaxGroups
    /\ strokes' = Append(strokes, stroke)
    /\ UNCHANGED previous
    /\ UNCHANGED << geomVars, uiVars >>
    /\ UNCHANGED << layer, edges, faces, discarded, called, az_real,
                    az_model, delta, result, passes, escaped >>

\* update_histogram_image: a new MeasurementsParser (parse_dimensions),
\* then get_processed_edges with the scene's calibration angles
UpdateHistogram(ar, am) ==
    /\ called = "none"
    /\ \E parsed \in {ParseDimensions(layer, strokes)} :
       \E out \in {ProcessedEdges(parsed.edges, ar, am)} :
        /\ edges' = parsed.edges
        /\ faces' = parsed.faces
        /\ discarded' = parsed.discarded
        /\ called' = "edges"
        /\ az_real' = ar
        /\ az_model' = am
        /\ delta' = out.delta
        /\ result' = out.call.ret
        /\ passes' = out.call.log
        /\ escaped' = out.call.escaped
        /\ previous' = NoPrevious
        /\ UNCHANGED << geomVars, uiVars >>
        /\ UNCHANGED << layer, strokes >>

\* update_stereonet_image: a new MeasurementsParser, then
\* get_processed_faces
UpdateStereonet(ar, am) ==
    /\ called = "none"
    /\ \E parsed \in {ParseDimensions(layer, strokes)} :
       \E out \in {ProcessedFaces(parsed.faces, ar, am)} :
        /\ edges' = parsed.edges
        /\ faces' = parsed.faces
        /\ discarded' = parsed.discarded
        /\ called' = "faces"
        /\ az_real' = ar
        /\ az_model' = am
        /\ delta' = out.delta
        /\ result' = out.call.ret
        /\ passes' = out.call.log
        /\ escaped' = out.call.escaped
        /\ previous' = NoPrevious
        /\ UNCHANGED << geomVars, uiVars >>
        /\ UNCHANGED << layer, strokes >>

\* The handler returns: its parser and the processed list are locals
HandlerReturn ==
    /\ called # "none"
    /\ edges' = <<>>
    /\ faces' = <<>>
    /\ discarded' = <<>>
    /\ called' = "none"
    /\ az_real' = 0
    /\ az_model' = 0
    /\ delta' = 0
    /\ result' = <<>>
    /\ passes' = <<>>
    /\ escaped' = FALSE
    /\ previous' = NoPrevious
    /\ UNCHANGED << geomVars, uiVars >>
    /\ UNCHANGED << layer, strokes >>

Init ==
    /\ layer = FALSE
    /\ strokes = <<>>
    /\ edges = <<>>
    /\ faces = <<>>
    /\ discarded = <<>>
    /\ NoCall

Next ==
    \/ HostAddLayer
    \/ HostRemoveLayer
    \/ \E stroke \in HostStrokes : HostDraw(stroke)
    \/ \E ar \in SceneAz, am \in SceneAz :
          \/ UpdateHistogram(ar, am)
          \/ UpdateStereonet(ar, am)
    \/ HandlerReturn

Spec == Init /\ [][Next]_vars

\* ------------------------------------------------ the geometry, called
\* the components of the vectors a caller makes: both zeros, small numbers
\* of either sign, and one whose square is out of range
VecComps == {NegZero, PosZero, FNum(1), FNum(-1), FNum(3), FNum(40)}

\* the vectors a caller makes; the last two are T - O and (5, 5, 0)
Vectors ==
    { [x |-> a, y |-> b, z |-> c] : a, b, c \in VecComps }
        \cup { [x |-> FNum(-1), y |-> FNum(25), z |-> PosZero],
               [x |-> FNum(5), y |-> FNum(5), z |-> PosZero] }

\* the right operands of "*" and the arguments of degrees_with
Operands ==
    { ZeroVector,
      [x |-> NegZero, y |-> NegZero, z |-> NegZero],
      [x |-> FNum(1), y |-> PosZero, z |-> PosZero],
      [x |-> FNum(-1), y |-> FNum(-1), z |-> FNum(-1)],
      [x |-> FNum(3), y |-> FNum(1), z |-> FNum(-1)],
      [x |-> FNum(-3), y |-> FNum(3), z |-> PosZero],
      [x |-> PosZero, y |-> FNum(40), z |-> FNum(40)],
      [x |-> FNum(-1), y |-> FNum(40), z |-> FNum(3)] }

\* the points given to Point.rotated and to the constructors
X1 == Pt(1, 0, 0)
Y1 == Pt(0, 1, 0)
P34 == Pt(3, 4, 0)
P55 == Pt(5, 5, 0)
GeomPoints == {O, Z, A, C, X1, Y1, P34, P55, H, NoXYZ}

\* those that are Point objects
Points == { p \in GeomPoints : p.has }

\* the azimuth arguments of Point.rotated
RotAngles == {0, 90, 180, 270}

\* v = Vector3D(x, y, z)
NewVector(v) ==
    /\ op = "none"
    /\ vec' = v
    /\ op' = "Vector3D"
    /\ args' = <<v>>
    /\ ret' = <<>>
    /\ UNCHANGED << coreVars, uiVars >>

\* vec.azimuth()
CallAzimuth ==
    /\ op # "none"
    /\ \E r \in {Azimuth(vec)} :
          /\ vec' = r.v
          /\ ret' = r.az
    /\ op' = "azimuth"
    /\ args' = <<vec>>
    /\ UNCHANGED << coreVars, uiVars >>

\* vec.dip()
CallDip ==
    /\ op # "none"
    /\ ret' = Dip(vec)
    /\ op' = "dip"
    /\ args' = <<vec>>
    /\ UNCHANGED << vec, coreVars, uiVars >>

\* vec.length()
CallLength ==
    /\ op # "none"
    /\ ret' = Length(vec)
    /\ op' = "length"
    /\ args' = <<vec>>
    /\ UNCHANGED << vec, coreVars, uiVars >>

\* vec.edge2face(), once on a vector of whole components, as
\* Edge.__init__ calls it
CallEdge2Face ==
    /\ op # "none"
    /\ ~vec.x.r
    /\ \E r \in {Edge2Face(vec)} :
          /\ vec' = r.v
          /\ ret' = [raised |-> r.raised]
    /\ op' = "edge2face"
    /\ args' = <<vec>>
    /\ UNCHANGED << coreVars, uiVars >>

\* vec * b; after edge2face a vector is read by azimuth, dip and length
\* only
CallMul(b) ==
    /\ op # "none"
    /\ ~vec.x.r
    /\ ret' = Cross(vec, b)
    /\ op' = "mul"
    /\ args' = <<vec, b>>
    /\ UNCHANGED << vec, coreVars, uiVars >>

\* vec.degrees_with(b)
CallDegreesWith(b) ==
    /\ op # "none"
    /\ ~vec.x.r
    /\ ret' = DegreesWith(vec, b)
    /\ op' = "degrees_with"
    /\ args' = <<vec, b>>
    /\ UNCHANGED << vec, coreVars, uiVars >>

\* self.rotated(center, azimuth)
CallRotated(self, center, azimuth) ==
    /\ op = "none"
    /\ ret' = PointRotated(self, center, azimuth)
    /\ op' = "rotated"
    /\ args' = <<self, center, azimuth>>
    /\ UNCHANGED << vec, coreVars, uiVars >>

\* Edge(point1, point2)
NewEdge(point1, point2) ==
    /\ op = "none"
    /\ ret' = EdgeInit(point1, point2)
    /\ op' = "Edge"
    /\ args' = <<point1, point2>>
    /\ UNCHANGED << vec, coreVars, uiVars >>

\* Face(point1, point2, point3)
NewFace(point1, point2, point3) ==
    /\ op = "none"
    /\ ret' = FaceInit(point1, point2, point3)
    /\ op' = "Face"
    /\ args' = <<point1, point2, point3>>
    /\ UNCHANGED << vec, coreVars, uiVars >>

InitGeom == Init

NextGeom ==
    \/ \E v \in Vectors : NewVector(v)
    \/ CallAzimuth
    \/ CallDip
    \/ CallLength
    \/ CallEdge2Face
    \/ \E b \in Operands : CallMul(b)
    \/ \E b \in Operands : CallDegreesWith(b)
    \/ \E self \in Points, center \in GeomPoints, azimuth \in RotAngles :
          CallRotated(self, center, azimuth)
    \/ \E point1 \in GeomPoints, point2 \in GeomPoints :
          NewEdge(point1, point2)
    \/ \E point1 \in GeomPoints, point2 \in GeomPoints,
          point3 \in GeomPoints :
          NewFace(point1, point2, point3)

SpecGeom == InitGeom /\ [][NextGeom]_vars

\* ------------------------------------------------ the export operators
\* An export method of the parser gives [raised, prompt, wrote, rows]:
\* an exception left it, it showed the save prompt, it wrote its file to
\* the end, and the rows it wrote after the header.  saved is
\* bpy.data.is_saved and disk tells whether open() and every write succeed;
\* an exception inside the "with open" block is caught and logged there.
NotWritten(prompt) ==
    [raised |-> FALSE, prompt |-> prompt, wrote |-> FALSE, rows |-> 0]

\* MeasurementsParser.export_raw_edges
ExportRawEdges(saved, disk, groups) ==
    IF ~saved THEN NotWritten(TRUE)
    ELSE IF ~disk THEN NotWritten(FALSE)
    ELSE [raised |-> FALSE, prompt |-> FALSE, wrote |-> TRUE,
          rows |-> Len(SelectSeq(groups, LAMBDA g : Len(g) >= 2))]

\* MeasurementsParser.export_raw_faces
ExportRawFaces(saved, disk, groups) ==
    IF ~saved THEN NotWritten(TRUE)
    ELSE IF ~disk THEN NotWritten(FALSE)
    ELSE [raised |-> FALSE, prompt |-> FALSE, wrote |-> TRUE,
          rows |-> Len(SelectSeq(groups, LAMBDA g : Len(g) >= 3))]

\* the attributes a row of the processed files reads
EdgeRow ==
    {"center", "azimuth", "dip", "edge_azimuth", "edge_dip",
     "rotated_azimuth", "length"}

FaceRow == {"center", "azimuth", "dip", "rotated_azimuth", "degree", "area"}

\* the loop that writes one row per entity: a missing attribute raises
\* AttributeError, which ends the writing
WriteRows(call, row, disk) ==
    IF call.escaped
    THEN [raised |-> TRUE, prompt |-> FALSE, wrote |-> FALSE, rows |-> 0]
    ELSE IF ~disk THEN NotWritten(FALSE)
    ELSE IF \E i \in 1..Len(call.ret) : ~(row \subseteq call.ret[i].attrs)
    THEN NotWritten(FALSE)
    ELSE [raised |-> FALSE, prompt |-> FALSE, wrote |-> TRUE,
          rows |-> Len(call.ret)]

\* MeasurementsParser.process_edges
ProcessEdges(saved, disk, groups, ar, am) ==
    IF ~saved THEN NotWritten(TRUE)
    ELSE WriteRows(ProcessedEdges(groups, ar, am).call, EdgeRow, disk)

\* MeasurementsParser.process_faces
ProcessFaces(saved, disk, groups, ar, am) ==
    IF ~saved THEN NotWritten(TRUE)
    ELSE WriteRows(ProcessedFaces(groups, ar, am).call, FaceRow, disk)

\* what execute leaves behind: the report is INFO when the try block
\* ran to its end and ERROR when an exception left it
Executed(name, done, raised) ==
    [op |-> name, prompt |-> done.prompt, wrote |-> done.wrote,
     rows |-> done.rows,
     report |-> IF raised THEN "ERROR" ELSE "INFO", ret |-> "FINISHED"]

\* ExportRawEdgesOperator.execute
ExportRawEdgesOperator(disk) ==
    /\ \E parsed \in {ParseDimensions(layer, strokes)} :
       \E done \in {ExportRawEdges(is_saved, disk, parsed.edges)} :
          export' = Executed("export.raw_edges", done, done.raised)
    /\ UNCHANGED << coreVars, geomVars, is_saved, rtVars, toggleVars >>

\* ExportRawFacesOperator.execute
ExportRawFacesOperator(disk) ==
    /\ \E parsed \in {ParseDimensions(layer, strokes)} :
       \E done \in {ExportRawFaces(is_saved, disk, parsed.faces)} :
          export' = Executed("export.raw_faces", done, done.raised)
    /\ UNCHANGED << coreVars, geomVars, is_saved, rtVars, toggleVars >>

\* ExportProcessedEdgesOperator.execute; area tells whether context.area
\* is an area: tag_redraw on None raises AttributeError
ExportProcessedEdgesOperator(disk, area, ar, am) ==
    /\ \E parsed \in {ParseDimensions(layer, strokes)} :
       \E done \in {ProcessEdges(is_saved, disk, parsed.edges, ar, am)} :
          export' = Executed("export.processed_edges", done,
                             done.raised \/ ~area)
    /\ UNCHANGED << coreVars, geomVars, is_saved, rtVars, toggleVars >>

\* ExportProcessedFacesOperator.execute
ExportProcessedFacesOperator(disk, area, ar, am) ==
    /\ \E parsed \in {ParseDimensions(layer, strokes)} :
       \E done \in {ProcessFaces(is_saved, disk, parsed.faces, ar, am)} :
          export' = Executed("export.processed_faces", done,
                             done.raised \/ ~area)
    /\ UNCHANGED << coreVars, geomVars, is_saved, rtVars, toggleVars >>

\* the user saves the host file
HostSave ==
    /\ ~is_saved
    /\ is_saved' = TRUE
    /\ UNCHANGED << coreVars, geomVars, export, rtVars, toggleVars >>

\* the user opens a new file: unsaved, without annotations
HostNewFile ==
    /\ is_saved
    /\ is_saved' = FALSE
    /\ layer' = FALSE
    /\ strokes' = <<>>
    /\ UNCHANGED << edges, faces, discarded, called, az_real, az_model,
                    delta, result, passes, escaped, previous >>
    /\ UNCHANGED << geomVars, export, rtVars, toggleVars >>

NextExport ==
    \/ HostAddLayer
    \/ HostRemoveLayer
    \/ \E stroke \in HostStrokes : HostDraw(stroke)
    \/ HostSave
    \/ HostNewFile
    \/ \E disk \in BOOLEAN : ExportRawEdgesOperator(disk)
    \/ \E disk \in BOOLEAN : ExportRawFacesOperator(disk)
    \/ \E disk \in BOOLEAN, area \in BOOLEAN, a \in RepeatArgs :
          ExportProcessedEdgesOperator(disk, area, a[1], a[2])
    \/ \E disk \in BOOLEAN, area \in BOOLEAN, a \in RepeatArgs :
          ExportProcessedFacesOperator(disk, area, a[1], a[2])

SpecExport == Init /\ [][NextExport]_vars

\* --------------------------------------------- the real-time operators
\* the events a modal handler is given
Events == {"TIMER", "ESC", "MOUSEMOVE"}

\* execute without the check of _running
ExecuteUnguarded(run, draws) ==
    IF ~draws
    THEN [ret |-> "raised", started |-> FALSE, report |-> "none"]
    ELSE [ret |-> "RUNNING_MODAL", started |-> TRUE, report |-> "none"]

\* RealTimeHistogramUpdateOperator.execute and its stereonet twin, with
\* run the class's _running: [ret, started, report].  started says that
\* the timer and the modal handler were added and _running set; draws
\* tells whether update_histogram_image returns or raises, and an
\* exception leaves execute before the timer is added.
Execute(run, draws) ==
    IF run
    THEN [ret |-> "CANCELLED", started |-> FALSE, report |-> "INFO"]
    ELSE IF ~draws
    THEN [ret |-> "raised", started |-> FALSE, report |-> "none"]
    ELSE [ret |-> "RUNNING_MODAL", started |-> TRUE, report |-> "none"]

\* modal that looks at the event before it looks at the flag
ModalEventFirst(flag, event, draws) ==
    IF event = "TIMER"
    THEN [ret |-> "RUNNING_MODAL", cancel |-> FALSE, drew |-> draws]
    ELSE IF event = "ESC" \/ ~flag
    THEN [ret |-> "CANCELLED", cancel |-> TRUE, drew |-> FALSE]
    ELSE [ret |-> "PASS_THROUGH", cancel |-> FALSE, drew |-> FALSE]

\* RealTimeHistogramUpdateOperator.modal and its twin, with flag the
\* operator's scene flag: [ret, cancel, drew].  cancel says that
\* self.cancel ran, drew that the chart was redrawn: draws tells whether
\* the redraw returns or raises, and its exception is caught.
Modal(flag, event, draws) ==
    IF ~flag
    THEN [ret |-> "CANCELLED", cancel |-> TRUE, drew |-> FALSE]
    ELSE IF event = "TIMER"
    THEN [ret |-> "RUNNING_MODAL", cancel |-> FALSE, drew |-> draws]
    ELSE IF event = "ESC"
    THEN [ret |-> "CANCELLED", cancel |-> TRUE, drew |-> FALSE]
    ELSE [ret |-> "PASS_THROUGH", cancel |-> FALSE, drew |-> FALSE]

\* update_real_time_update_histogram without the reset of the other flag
UpdateFlagsKeeping(own, other) == [own |-> own, other |-> other]

\* the scene flags after update_real_time_update_histogram (or _stereonet)
\* has run for its own flag: a flag that is True clears the other one,
\* whose own callback then finds it False and does nothing
UpdateFlags(own, other) ==
    [own |-> own, other |-> IF own THEN FALSE ELSE other]

\* the scene flag of a class
Flag(c) ==
    IF c = "histogram" THEN real_time_update_histogram
    ELSE real_time_update_stereonet

\* bpy.ops.wm.real_time_..._update_operator(): a new operator of class c
\* executes
Start(c, draws, call) ==
    \E e \in {Execute(running[c], draws)} :
        /\ running' = [running EXCEPT ![c] = @ \/ e.started]
        /\ timers' = [timers EXCEPT ![c] = IF e.started THEN @ + 1 ELSE @]
        /\ handlers' = [handlers EXCEPT
                            ![c] = IF e.started THEN @ + 1 ELSE @]
        /\ shown' = IF e.started THEN c ELSE shown
        /\ rt' = [op |-> c, call |-> call, event |-> "none",
                  ret |-> e.ret, drew |-> e.started, report |-> e.report]

\* the user toggles the histogram flag in the panel;
\* update_real_time_update_histogram runs to its end
ToggleHistogram(draws) ==
    /\ \E f \in {UpdateFlags(~real_time_update_histogram,
                              real_time_update_stereonet)} :
          /\ real_time_update_histogram' = f.own
          /\ real_time_update_stereonet' = f.other
          /\ IF f.own THEN Start("histogram", draws, "update")
             ELSE /\ rt' = [NoRt EXCEPT !.op = "histogram",
                                        !.call = "update"]
                  /\ UNCHANGED << running, timers, handlers, shown >>
    /\ UNCHANGED << coreVars, geomVars, exportVars, toggleVars >>

\* the user toggles the stereonet flag;
\* update_real_time_update_stereonet runs to its end
ToggleStereonet(draws) ==
    /\ \E f \in {UpdateFlags(~real_time_update_stereonet,
                              real_time_update_histogram)} :
          /\ real_time_update_stereonet' = f.own
          /\ real_time_update_histogram' = f.other
          /\ IF f.own THEN Start("stereonet", draws, "update")
             ELSE /\ rt' = [NoRt EXCEPT !.op = "stereonet",
                                        !.call = "update"]
                  /\ UNCHANGED << running, timers, handlers, shown >>
    /\ UNCHANGED << coreVars, geomVars, exportVars, toggleVars >>

\* the user runs an operator of class c from the operator search
Invoke(c, draws) ==
    /\ Start(c, draws, "execute")
    /\ UNCHANGED << real_time_update_histogram, real_time_update_stereonet >>
    /\ UNCHANGED << coreVars, geomVars, exportVars, toggleVars >>

\* the window manager gives an event to the running operator of class c;
\* cancel removes the operator's timer and clears _running, and an
\* operator that returns CANCELLED is no modal handler any more
ModalEvent(c, event, draws) ==
    /\ handlers[c] > 0
    /\ \E m \in {Modal(Flag(c), event, draws)} :
          /\ running' = [running EXCEPT ![c] = @ /\ ~m.cancel]
          /\ timers' = [timers EXCEPT ![c] = IF m.cancel THEN @ - 1 ELSE @]
          /\ handlers' = [handlers EXCEPT
                              ![c] = IF m.cancel THEN @ - 1 ELSE @]
          /\ shown' = IF m.drew THEN c ELSE shown
          /\ rt' = [op |-> c, call |-> "modal", event |-> event,
                    ret |-> m.ret, drew |-> m.drew, report |-> "none"]
    /\ UNCHANGED << real_time_update_histogram, real_time_update_stereonet >>
    /\ UNCHANGED << coreVars, geomVars, exportVars, toggleVars >>

\* the operator of class c handles some event
Handles(c) ==
    \E event \in Events, draws \in BOOLEAN : ModalEvent(c, event, draws)

NextRealTime ==
    \/ \E draws \in BOOLEAN : ToggleHistogram(draws)
    \/ \E draws \in BOOLEAN : ToggleStereonet(draws)
    \/ \E c \in Classes, draws \in BOOLEAN : Invoke(c, draws)
    \/ \E c \in Classes, event \in Events, draws \in BOOLEAN :
          ModalEvent(c, event, draws)

SpecRealTime == Init /\ [][NextRealTime]_vars

\* events keep arriving at a running operator: its timer sends one every
\* update_interval seconds
SpecRealTimeFair ==
    /\ Init
    /\ [][NextRealTime]_vars
    /\ \A c \in Classes : WF_vars(Handles(c))

\* ----------------------------------------------- the toggle operators
\* what the operators set when they switch to the custom settings
CustomRender ==
    [engine |-> "BLENDER_EEVEE_NEXT", samples |-> 64, raytracing |-> TRUE,
     film_transparent |-> TRUE]

CustomWorld == [color |-> <<100, 100, 100, 100>>, strength |-> 50]

\* An execution of a toggle operator gives [scene, settings, ret, report].
\* ToggleLightSettingsOperator.execute, the branch that saves the current
\* settings and applies the custom ones; the camera is read and set only
\* when the scene has one
LightSave(sc, settings) ==
    LET saved1 == [settings EXCEPT
                      !.engine = sc.render.engine,
                      !.samples = sc.render.samples,
                      !.raytracing = sc.render.raytracing,
                      !.film_transparent = sc.render.film_transparent,
                      !.world_color = sc.world.color,
                      !.world_strength = sc.world.strength]
        saved2 == [saved1 EXCEPT
                      !.material_metallic = sc.material.metallic,
                      !.material_roughness = sc.material.roughness,
                      !.material_specular_ior = sc.material.specular_ior]
        saved3 == IF sc.camera.has
                  THEN [saved2 EXCEPT !.focal_length = sc.camera.lens,
                                      !.clip_start = sc.camera.clip_start,
                                      !.clip_end = sc.camera.clip_end]
                  ELSE saved2
    IN  IF sc.material.kind # "ok"
        THEN [scene |-> sc, settings |-> saved1, ret |-> "CANCELLED",
              report |-> "ERROR"]
        ELSE [scene |-> [sc EXCEPT
                  !.render = CustomRender,
                  !.world = CustomWorld,
                  !.material = [@ EXCEPT !.metallic = 0, !.roughness = 100,
                                         !.specular_ior = 0],
                  !.camera = IF sc.camera.has
                             THEN [@ EXCEPT !.lens = 5000, !.clip_start = 10,
                                            !.clip_end = 1000000]
                             ELSE @],
              settings |-> [saved3 EXCEPT !.is_custom_settings = TRUE],
              ret |-> "FINISHED", report |-> "none"]

\* the restoring branch with the camera's lens set from clip_end
LightRestoreLensFromClip(sc, settings) ==
    LET sc1 == [sc EXCEPT
                   !.render = [engine |-> settings.engine,
                               samples |-> settings.samples,
                               raytracing |-> settings.raytracing,
                               film_transparent |->
                                   settings.film_transparent],
                   !.world = [color |-> settings.world_color,
                              strength |-> settings.world_strength]]
    IN  IF sc.material.kind # "ok"
        THEN [scene |-> sc1, settings |-> settings, ret |-> "CANCELLED",
              report |-> "ERROR"]
        ELSE [scene |-> [sc1 EXCEPT
                  !.material = [@ EXCEPT
                      !.metallic = settings.material_metallic,
                      !.roughness = settings.material_roughness,
                      !.specular_ior = settings.material_specular_ior],
                  !.camera = IF sc.camera.has
                             THEN [@ EXCEPT
                                      !.lens = settings.clip_end,
                                      !.clip_start = settings.clip_start,
                                      !.clip_end = settings.clip_end]
                             ELSE @],
              settings |-> [settings EXCEPT !.is_custom_settings = FALSE],
              ret |-> "FINISHED", report |-> "none"]

\* ToggleLightSettingsOperator.execute, the branch that restores the
\* saved settings
LightRestore(sc, settings) ==
    LET sc1 == [sc EXCEPT
                   !.render = [engine |-> settings.engine,
                               samples |-> settings.samples,
                               raytracing |-> settings.raytracing,
                               film_transparent |->
                                   settings.film_transparent],
                   !.world = [color |-> settings.world_color,
                              strength |-> settings.world_strength]]
    IN  IF sc.material.kind # "ok"
        THEN [scene |-> sc1, settings |-> settings, ret |-> "CANCELLED",
              report |-> "ERROR"]
        ELSE [scene |-> [sc1 EXCEPT
                  !.material = [@ EXCEPT
                      !.metallic = settings.material_metallic,
                      !.roughness = settings.material_roughness,
                      !.specular_ior = settings.material_specular_ior],
                  !.camera = IF sc.camera.has
                             THEN [@ EXCEPT
                                      !.lens = settings.focal_length,
                                      !.clip_start = settings.clip_start,
                                      !.clip_end = settings.clip_end]
                             ELSE @],
              settings |-> [settings EXCEPT !.is_custom_settings = FALSE],
              ret |-> "FINISHED", report |-> "none"]

\* ToggleLightSettingsOperator.execute
LightExecute(sc, settings) ==
    IF ~settings.is_custom_settings THEN LightSave(sc, settings)
    ELSE LightRestore(sc, settings)

\* ToggleRulerSettingsOperator.execute; hasData tells whether the scene
\* has annotation data (scene.grease_pencil is not None; iterating the
\* layers of None raises AttributeError) and hasLayer whether the data
\* hold the layer "RulerData3D".  The layer is unhidden in both branches.
RulerExecute(hasData, hasLayer, sc, settings) ==
    IF ~hasData
    THEN [scene |-> sc, settings |-> settings, ret |-> "raised",
          report |-> "none"]
    ELSE IF ~hasLayer
    THEN [scene |-> sc, settings |-> settings, ret |-> "CANCELLED",
          report |-> "ERROR"]
    ELSE IF ~settings.is_custom_ruler
    THEN [scene |-> [sc EXCEPT !.ruler = [color |-> <<100, 0, 0>>,
                                          opacity |-> 70, thickness |-> 7,
                                          hide |-> FALSE]],
          settings |-> [is_custom_ruler |-> TRUE,
                        color |-> sc.ruler.color,
                        opacity |-> sc.ruler.opacity,
                        thickness |-> sc.ruler.thickness],
          ret |-> "FINISHED", report |-> "none"]
    ELSE [scene |-> [sc EXCEPT !.ruler = [color |-> settings.color,
                                          opacity |-> settings.opacity,
                                          thickness |-> settings.thickness,
                                          hide |-> FALSE]],
          settings |-> [settings EXCEPT !.is_custom_ruler = FALSE],
          ret |-> "FINISHED", report |-> "none"]

\* the record of an execution of the operator name that started with
\* the flag custom: an execution that finds the flag False is the first
\* of a pair, and the next execution of the same operator the second
Toggled(name, custom, done) ==
    [op |-> name, ret |-> done.ret, report |-> done.report,
     pair |-> IF ~custom THEN 1
              ELSE IF tg.op = name /\ tg.pair = 1 THEN 2 ELSE 0,
     before |-> IF ~custom THEN scene
                ELSE IF tg.op = name /\ tg.pair = 1 THEN tg.before
                ELSE done.scene]

\* the user runs ToggleLightSettingsOperator
ToggleLight ==
    /\ \E done \in {LightExecute(scene, my_light_settings)} :
          /\ scene' = done.scene
          /\ my_light_settings' = done.settings
          /\ tg' = Toggled("light", my_light_settings.is_custom_settings,
                           done)
    /\ UNCHANGED << coreVars, geomVars, exportVars, rtVars,
                    my_ruler_settings >>

\* the user runs ToggleRulerSettingsOperator; a scene without the layer
\* may have no annotation data at all
ToggleRuler ==
    /\ \E hasData \in (IF layer THEN {TRUE} ELSE BOOLEAN) :
       \E done \in {RulerExecute(hasData, layer, scene,
                                 my_ruler_settings)} :
          /\ scene' = done.scene
          /\ my_ruler_settings' = done.settings
          /\ tg' = Toggled("ruler", my_ruler_settings.is_custom_ruler, done)
    /\ UNCHANGED << coreVars, geomVars, exportVars, rtVars,
                    my_light_settings >>

\* the user changes the scene by hand: sc is the scene afterwards
HostEdit(sc) ==
    /\ sc # scene
    /\ scene' = sc
    /\ tg' = [tg EXCEPT !.pair = 0, !.before = sc]
    /\ UNCHANGED << coreVars, geomVars, exportVars, rtVars,
                    my_light_settings, my_ruler_settings >>

\* the scenes one edit away: render and world, material0, the camera or
\* the ruler layer, when the scene has it, set to the user's values,
\* material0 or the camera removed, the Principled BSDF node removed
Edits ==
    { [scene EXCEPT !.render = UserRender, !.world = UserWorld],
      [scene EXCEPT !.material = UserMaterial],
      [scene EXCEPT !.material = NoMaterial("none")],
      [scene EXCEPT !.material = NoMaterial("no_bsdf")],
      [scene EXCEPT !.camera = UserCamera],
      [scene EXCEPT !.camera = NoCamera] }
    \cup (IF layer THEN {[scene EXCEPT !.ruler = UserRuler]} ELSE {})

NextToggle ==
    \/ ToggleLight
    \/ ToggleRuler
    \/ \E sc \in Edits : HostEdit(sc)
    \/ HostAddLayer
    \/ HostRemoveLayer

SpecToggle == Init /\ [][NextToggle]_vars

\* ------------------------------------------------------------- claims
\* a batch call has been made and its caller holds the returned list
Processed == called \in {"edges", "faces"}

\* the calibration angles of the call are in [0, 360)
AnglesInRange == az_real \in 0..359 /\ az_model \in 0..359

\* C1: whatever az_real and az_model are, below -360 in difference
\* included, every entity a batch call returns has its rotated_azimuth in
\* [0, 360).
C1_RotatedInRange ==
    Processed =>
        \A i \in 1..Len(result) : result[i].rotated_azimuth \in 0..359

C3_RotatedIsSumMod360 ==
    (Processed /\ AnglesInRange) =>
        /\ \A i \in 1..Len(result) :
              result[i].azimuth \in 0..359 =>
                  result[i].rotated_azimuth
                      = (result[i].azimuth + az_real - az_model) % 360
        /\ (az_real = 30 /\ az_model = 350) =>
              /\ delta = 40
              /\ \A i \in 1..Len(result) :
                    result[i].azimuth = 350 => result[i].rotated_azimuth = 30

C3_Witness ==
    /\ called = "faces"
    /\ az_real = 30 /\ az_model = 350
    /\ \E i \in 1..Len(result) :
          result[i].azimuth = 350 /\ result[i].rotated_azimuth = 30

\* C4: a batch call with az_real = az_model, whatever their value, stores
\* the azimuth of every entity, when it is in [0, 360), unchanged as its
\* rotated_azimuth.
C4_EqualAnglesIdentity ==
    (Processed /\ az_real = az_model) =>
        \A i \in 1..Len(result) :
            result[i].azimuth \in 0..359 =>
                result[i].rotated_azimuth = result[i].azimuth

C4_Witness ==
    /\ called = "edges"
    /\ az_real = 800 /\ az_model = 800
    /\ \E i \in 1..Len(result) :
          result[i].azimuth = 260 /\ result[i].rotated_azimuth = 260

\* the groups the batch call went through
Input == IF called = "edges" THEN edges ELSE faces

\* the points a group needs to make an entity of the call
Needed == IF called = "edges" THEN 2 ELSE 3

\* the positions of the groups whose entity the call appended, in order
Accepted ==
    SelectSeq([i \in 1..Len(passes) |-> i],
              LAMBDA i : passes[i].kind = "appended")

\* the number of groups the call skipped, with a warning or an error
Skipped == Cardinality({ i \in 1..Len(passes) : passes[i].kind # "appended" })

\* C5: a batch call returns the entities of the accepted groups in the
\* order of the input; a skipped or failing group never stops the loop,
\* so every group gets its pass and every valid group its entity.
C5_InputOrder ==
    Processed =>
        /\ ~escaped
        /\ Len(passes) = Len(Input)
        /\ Len(result) = Len(Accepted)
        /\ \A k \in 1..Len(Accepted) :
              /\ result[k].point1 = Input[Accepted[k]][1]
              /\ result[k].point2 = Input[Accepted[k]][2]
              /\ called = "faces" => result[k].point3 = Input[Accepted[k]][3]
        /\ \A i \in 1..Len(Input) :
              (\E n \in Needed..MaxPts : Input[i] = Prefix(General, n))
                  => passes[i].kind = "appended"

C5_Witness ==
    /\ called = "edges"
    /\ Len(edges) = 2
    /\ passes[1].kind = "error"
    /\ passes[2].kind = "appended"
    /\ Len(result) = 1
    /\ result[1].point1 = edges[2][1]

\* C6: parse_dimensions puts the strokes of exactly 2 points into edges,
\* those of exactly 3 into faces and drops every other stroke with a
\* warning; a 2-point stroke followed by a 4-point stroke gives exactly
\* one Edge, no Face and no exception.
C6_ClassifiedByCount ==
    called # "none" =>
        /\ Len(edges) = Len(SelectSeq(strokes, LAMBDA st : Len(st) = 2))
        /\ Len(faces) = Len(SelectSeq(strokes, LAMBDA st : Len(st) = 3))
        /\ discarded = SelectSeq(strokes, LAMBDA st : Len(st) \notin {2, 3})
        /\ \A i \in 1..Len(edges) : Len(edges[i]) = 2
        /\ \A i \in 1..Len(faces) : Len(faces[i]) = 3
        /\ (Len(strokes) = 2 /\ Len(strokes[1]) = 2 /\ Len(strokes[2]) = 4) =>
              /\ faces = <<>>
              /\ ~escaped
              /\ called = "edges" =>
                    /\ Len(result) = 1
                    /\ result[1].point1 = strokes[1][1]
                    /\ result[1].point2 = strokes[1][2]
                    /\ passes = <<[kind |-> "appended", ctor |-> "returned"]>>
              /\ called = "faces" => result = <<>> /\ passes = <<>>

C6_Witness ==
    /\ called = "edges"
    /\ strokes = <<Prefix(General, 2), Prefix(General, 4)>>
    /\ Len(result) = 1
    /\ faces = <<>>
    /\ Len(discarded) = 1

\* C7: get_processed_faces makes one Face of the first three points of
\* every group of at least 3 points, whatever follows the third, and
\* passes over every group of fewer than 3 points with a warning.
C7_FirstThreePoints ==
    called = "faces" =>
        /\ Len(passes) = Len(faces)
        /\ \A i \in 1..Len(faces) :
              IF Len(faces[i]) < 3
              THEN passes[i] = [kind |-> "warning", ctor |-> "none"]
              ELSE passes[i].kind # "warning" /\ passes[i].ctor # "none"
        /\ Len(result) = Len(Accepted)
        /\ \A k \in 1..Len(Accepted) :
              <<result[k].point1, result[k].point2, result[k].point3>>
                  = SubSeq(faces[Accepted[k]], 1, 3)

C7_Witness ==
    /\ called = "faces"
    /\ Len(faces) = 2
    /\ Len(faces[1]) = 4 /\ passes[1].kind = "appended"
    /\ Len(faces[2]) = 2 /\ passes[2].kind = "warning"
    /\ Len(result) = 1

\* C8, as claimed: the number of skipped groups is part of what a batch
\* call returns.  What the call returns is result; the call on no groups
\* returns the empty list and skipped nothing, so were the number part of
\* the returned value, every call returning the empty list would have
\* skipped nothing.
C8_ReturnTellsSkipped ==
    (Processed /\ result = <<>>) => Skipped = 0

\* C8, amended: a batch call always completes and returns only the list
\* of the entities it made, each with azimuth and rotated_azimuth; the
\* skipped groups are logged, their number is the number of input groups
\* less the length of the returned list.
C8_ReturnsEntitiesOnly ==
    Processed =>
        /\ ~escaped
        /\ Len(passes) = Len(Input)
        /\ Skipped = Len(Input) - Len(result)
        /\ \A k \in 1..Len(result) :
              /\ ~result[k].raised
              /\ {"azimuth", "rotated_azimuth"} \subseteq result[k].attrs

C8_Witness ==
    /\ Processed
    /\ Len(Input) = 2
    /\ result = <<>>
    /\ Skipped = 2
    /\ passes[1].kind = "warning"
    /\ passes[2].kind = "error"

\* C9: no constructor call of a batch ends with an exception propagating
\* to its caller, whatever the points are.
C9_ConstructorReturns ==
    \A i \in 1..Len(passes) : passes[i].ctor # "raised"

\* C10: an Edge of two coincident points has length 0 and azimuth 0, a
\* Face of three collinear points has area 0 and azimuth 0, and a batch
\* call with angles in [0, 360) returns both with the delta as
\* rotated_azimuth.
C10_DegenerateIsZero ==
    (Processed /\ AnglesInRange) =>
        \A i \in 1..Len(Input) :
            LET g == Input[i]
                coincident ==
                    /\ called = "edges" /\ Len(g) >= 2
                    /\ g[1].has /\ g[2].has
                    /\ g[1] = g[2]
                collinear ==
                    /\ called = "faces" /\ Len(g) >= 3
                    /\ g[1].has /\ g[2].has /\ g[3].has
                    /\ (g[2].x - g[1].x) * (g[3].y - g[1].y)
                          = (g[2].y - g[1].y) * (g[3].x - g[1].x)
                    /\ (g[2].y - g[1].y) * (g[3].z - g[1].z)
                          = (g[2].z - g[1].z) * (g[3].y - g[1].y)
                    /\ (g[2].z - g[1].z) * (g[3].x - g[1].x)
                          = (g[2].x - g[1].x) * (g[3].z - g[1].z)
            IN  (coincident \/ collinear) =>
                    /\ passes[i] = [kind |-> "appended", ctor |-> "returned"]
                    /\ \E k \in 1..Len(Accepted) :
                          /\ Accepted[k] = i
                          /\ result[k].azimuth = 0
                          /\ result[k].rotated_azimuth = delta
                          /\ IF called = "edges" THEN result[k].length = 0
                             ELSE result[k].area = 0

\* C11: with calibration angles in [0, 360), every azimuth a batch call
\* returns (azimuth and rotated_azimuth of every entity, edge_azimuth of
\* every Edge) is in [0, 360), 360 itself excluded.
C11_AzimuthsBelow360 ==
    (Processed /\ AnglesInRange) =>
        \A i \in 1..Len(result) :
            /\ result[i].azimuth \in 0..359
            /\ result[i].rotated_azimuth \in 0..359
            /\ called = "edges" => result[i].edge_azimuth \in 0..359

\* C12: Vector3D.dip returns a value in [0, 180] for every vector, at
\* most 90 exactly when the z of the vector is not negative at the call.
C12_DipAtMost90IffZNotNegative ==
    (op = "dip" /\ ~ret.raised) =>
        /\ ret.val \in 0..180
        /\ ret.val <= 90 <=> Val(args[1].z) >= 0

\* b is a with the sign of every component flipped
IsNegationOf(a, b) ==
    \A c \in {"x", "y", "z"} : b[c].s = -a[c].s /\ b[c].m = a[c].m

\* C13: azimuth() flips the sign of all three components of its vector
\* exactly when z < 0 and leaves the vector as it is otherwise (a zero z
\* included); afterwards z >= 0, and a second call returns the same
\* azimuth and changes nothing.  The azimuth is the angle of (x, y) from
\* +Y toward +X, 90 for (1, 0, 0).
C13_AzimuthCanonicalizes ==
    op = "azimuth" =>
        LET before == args[1]
            x == Val(vec.x)
            y == Val(vec.y)
        IN  /\ Val(before.z) < 0 => IsNegationOf(before, vec)
            /\ Val(before.z) >= 0 => vec = before
            /\ Val(vec.z) >= 0
            /\ Azimuth(vec) = [v |-> vec, az |-> ret]
            /\ (x = 0 /\ y > 0) => ret = 0
            /\ (x > 0 /\ y > 0) => ret \in 0..89
            /\ (x > 0 /\ y = x) => ret = 45
            /\ (x > 0 /\ y = 0) => ret = 90
            /\ (x > 0 /\ y < 0) => ret \in 90..179
            /\ (x = 0 /\ y < 0) => ret = 180
            /\ (x < 0 /\ y < 0) => ret \in 180..269
            /\ (x < 0 /\ y = 0) => ret = 270
            /\ (x < 0 /\ y > 0) => ret \in 270..360
            /\ before = [x |-> FNum(1), y |-> PosZero, z |-> PosZero]
                  => ret = 90

\* azimuth() of (1, 0, -1): the vector becomes (-1, -0.0, 1), azimuth 270
C13_Witness ==
    /\ op = "azimuth"
    /\ args[1] = [x |-> FNum(1), y |-> PosZero, z |-> FNum(-1)]
    /\ vec = [x |-> FNum(-1), y |-> NegZero, z |-> FNum(1)]
    /\ ret = 270

\* C14: rotated(center, azimuth) returns the point at center.x + r *
\* cos(azimuth), center.y + r * sin(azimuth) with the z of self, r being
\* the X-Y distance of self from center; its X-Y distance from center is r
\* for every center.  (Coordinates in hundredths.)
C14_RotatedAroundCenter ==
    (op = "rotated" /\ ~ret.raised) =>
        LET self == args[1]
            center == args[2]
            azimuth == args[3]
            dx == center.x - self.x
            dy == center.y - self.y
            r == ISqrt((dx * dx + dy * dy) * 10000)
        IN  /\ ret.x = 100 * center.x + r * Cos(azimuth)
            /\ ret.y = 100 * center.y + r * Sin(azimuth)
            /\ ret.z = 100 * self.z
            /\ (ret.x - 100 * center.x) * (ret.x - 100 * center.x)
                  + (ret.y - 100 * center.y) * (ret.y - 100 * center.y)
                  = r * r

\* f == g on floats: nan equals nothing, -0.0 equals 0.0
FEq(f, g) == ~IsNaN(f) /\ ~IsNaN(g) /\ Val(f) = Val(g)

\* a * b == -(b * a), component by component
AntiCommutes(ab, ba) ==
    \A c \in {"x", "y", "z"} : FEq(ab[c], FNeg(ba[c]))

\* the float of the exact number n
FloatOf(n) ==
    IF n > FloatMax THEN Inf(1) ELSE IF n < -FloatMax THEN Inf(-1)
    ELSE FNum(n)

\* no product of a component of a and a component of b is out of range
FiniteProducts(a, b) ==
    \A c, d \in {"x", "y", "z"} : a[c].m * b[d].m <= FloatMax

\* C15 as stated: for all vectors a and b, a * b equals the componentwise
\* negation of b * a.
C15_AntiCommutative ==
    op = "mul" => AntiCommutes(ret, Cross(args[2], args[1]))

\* C15, amended: a * b is the right-handed cross product (ay*bz - by*az,
\* -(ax*bz - bx*az), ax*by - bx*ay), a new vector, with both operands left
\* unchanged; for all a and b whose component products are in the float
\* range, a * b equals the componentwise negation of b * a.
C15_CrossProduct ==
    op = "mul" =>
        LET a == args[1]
            b == args[2]
            ax == Val(a.x)  ay == Val(a.y)  az == Val(a.z)
            bx == Val(b.x)  by == Val(b.y)  bz == Val(b.z)
        IN  /\ vec = a
            /\ FiniteProducts(a, b) =>
                  /\ FEq(ret.x, FloatOf(ay * bz - by * az))
                  /\ FEq(ret.y, FloatOf(-(ax * bz - bx * az)))
                  /\ FEq(ret.z, FloatOf(ax * by - bx * ay))
                  /\ AntiCommutes(ret, Cross(b, a))

\* (1, 3, -1) * (3, 1, -1) = (-2, -2, -8)
C15_Witness ==
    /\ op = "mul"
    /\ args = << [x |-> FNum(1), y |-> FNum(3), z |-> FNum(-1)],
                 [x |-> FNum(3), y |-> FNum(1), z |-> FNum(-1)] >>
    /\ ret = [x |-> FNum(-2), y |-> FNum(-2), z |-> FNum(-8)]

C17_LengthIsDistance ==
    (op = "Edge" /\ "length" \in ret.attrs) =>
        LET p1 == args[1]
            p2 == args[2]
            d2 == (p2.x - p1.x) * (p2.x - p1.x)
                    + (p2.y - p1.y) * (p2.y - p1.y)
                    + (p2.z - p1.z) * (p2.z - p1.z)
            back == EdgeInit(p2, p1)
        IN  /\ ret.length >= 0
            /\ ret.length = ISqrt(d2 * 10000)
            /\ ret.length = 0 <=> p1 = p2
            /\ "length" \in back.attrs /\ back.length = ret.length
            /\ args = <<O, P34>> => ret.length = 500

\* the Edge from (3,4,0) to (1,1,1) has length 3.74
C17_Witness ==
    /\ op = "Edge"
    /\ args = <<P34, C>>
    /\ "length" \in ret.attrs
    /\ ret.length = 374

\* a vector of length zero
IsZeroLength(v) == v.x.m = 0 /\ v.y.m = 0 /\ v.z.m = 0

\* every attribute the Face constructor sets
FaceAttrs ==
    {"point1", "point2", "point3", "center", "ab", "azimuth", "dip",
     "area", "rotated_azimuth", "degree"}

\* C18: degrees_with returns 0 whenever one of the two vectors has zero
\* length, and a Face whose point2 coincides with point1 or with point3 is
\* constructed with degree 0 and every other attribute set.
C18_DegenerateAngleIsZero ==
    /\ (op = "degrees_with"
            /\ (IsZeroLength(args[1]) \/ IsZeroLength(args[2])))
          => ret = 0
    /\ (op = "Face" /\ args[1].has /\ args[2].has /\ args[3].has
            /\ (args[2] = args[1] \/ args[2] = args[3]))
          => (~ret.raised /\ ret.attrs = FaceAttrs /\ ret.degree = 0)

\* the Face of (6,1,0), (6,1,0), (1,1,1)
C18_Witness ==
    /\ op = "Face"
    /\ args = <<A, A, C>>
    /\ ret.attrs = FaceAttrs
    /\ ret.degree = 0

C20_StoredDipsAtMost90 ==
    Processed =>
        \A i \in 1..Len(result) :
            /\ result[i].dip <= 90
            /\ called = "edges" => result[i].edge_dip <= 90

\* the attributes of an Edge whose constructor ran to its end
EdgeAttrs ==
    {"point1", "point2", "center", "a", "length", "azimuth", "dip",
     "edge_azimuth", "edge_dip", "rotated_azimuth"}

\* C21: the length, azimuth and dip of a constructed Edge are those of the
\* vector P2 - P1 (the dip read after azimuth() canonicalized it), taken
\* before edge2face; edge_azimuth and edge_dip are those of the vector
\* after edge2face; and rotated_azimuth is 0.
C21_CapturedBeforeEdge2Face ==
    (op = "Edge" /\ ret.attrs = EdgeAttrs) =>
        \E a \in {Vector3DInit(args[1], args[2])} :
        \E c \in {Azimuth(a).v} :
        \E f \in {Azimuth(Edge2Face(c).v).v} :
            /\ ret.length = Length(a).val
            /\ ret.azimuth = Azimuth(a).az
            /\ ret.dip = Dip(c).val
            /\ ret.edge_azimuth = Azimuth(Edge2Face(c).v).az
            /\ ret.edge_dip = Dip(f).val
            /\ ret.a = f
            /\ ret.rotated_azimuth = 0

\* the Edge from (0,0,0) to (1,1,1): length 1.73, azimuth 45, dip 54, and
\* a vector that edge2face has rewritten
C21_Witness ==
    /\ op = "Edge"
    /\ args = <<O, C>>
    /\ ret.attrs = EdgeAttrs
    /\ ret.length = 173 /\ ret.azimuth = 45 /\ ret.dip = 54
    /\ ret.rotated_azimuth = 0
    /\ ret.a.z.r

\* the X-Y length of a vector in hundredths
LengthXY(v) == ISqrt((Sq(v.x) + Sq(v.y)) * (IF v.x.r THEN 1 ELSE 10000))

\* C22 as stated: edge2face applied to any vector sets z = -horiz, gives
\* a result with z <= 0 and leaves the X-Y length what it was.
C22_KeepsLengthXY ==
    op = "edge2face" =>
        /\ ~ret.raised
        /\ vec.z.r /\ Val(vec.z) <= 0
        /\ LengthXY(vec) = LengthXY(args[1])

\* C22: edge2face applied to a vector whose squares of x and y are in
\* range leaves the canonicalized bearing's vector with z = -horiz <= 0
\* (a negative zero when horiz is 0) and an X-Y length within one percent
\* of horiz; when a square is out of range it raises and leaves the
\* vector as azimuth() canonicalized it.
C22_KeepsLengthXYRounded ==
    op = "edge2face" =>
        \E c \in {Azimuth(args[1]).v} :
            IF Pow2Raises(c.x) \/ Pow2Raises(c.y)
            THEN ret.raised /\ vec = c
            ELSE /\ ~ret.raised
                 /\ vec.z = [s |-> -1, r |-> TRUE,
                             m |-> (Sq(c.x) + Sq(c.y)) * 10000]
                 /\ LengthXY(vec) = ISqrt(vec.z.m)
                       \/ /\ 100 * (LengthXY(vec) - ISqrt(vec.z.m))
                               <= ISqrt(vec.z.m)
                          /\ 100 * (ISqrt(vec.z.m) - LengthXY(vec))
                               <= ISqrt(vec.z.m)

\* edge2face of (5, 5, 0): horiz 7.07, and afterwards z = -horiz, x and
\* y negative, and an X-Y length that is not 7.07
C22_Witness ==
    /\ op = "edge2face"
    /\ args[1] = [x |-> FNum(5), y |-> FNum(5), z |-> PosZero]
    /\ ~ret.raised
    /\ vec.z = [s |-> -1, m |-> 500000, r |-> TRUE]
    /\ vec.x.s = -1 /\ vec.y.s = -1
    /\ LengthXY(args[1]) = 707
    /\ LengthXY(vec) # 707

\* an Edge was made of two Points that differ in x or y
EdgeInPlan ==
    /\ op = "Edge"
    /\ args[1].has /\ args[2].has
    /\ args[1].x # args[2].x \/ args[1].y # args[2].y

\* two angles of 0..360 degrees are at most one degree apart on the circle
Within1(a, b) == a - b \in {-360, -359, -1, 0, 1, 359, 360}

\* C23 as stated: every Edge whose points differ in x or y has
\* edge_azimuth equal to azimuth and edge_dip equal to 45.
C23_EdgeAzimuthIsAzimuth ==
    EdgeInPlan =>
        /\ ret.attrs = EdgeAttrs
        /\ ret.edge_azimuth = ret.azimuth
        /\ ret.edge_dip = 45

\* C23: an Edge whose points differ in x or y, with the squares of the
\* differences in range, has edge_azimuth within a degree of azimuth and
\* edge_dip of 45 (or a rounding below 45), both exact along the x and y
\* axes; with a square out of range the Edge has no edge_azimuth and no
\* edge_dip at all.
C23_EdgeAzimuthNearAzimuth ==
    EdgeInPlan =>
        \E a \in {Vector3DInit(args[1], args[2])} :
            IF Length(a).raised
            THEN ret.attrs \cap {"edge_azimuth", "edge_dip"} = {}
            ELSE /\ ret.attrs = EdgeAttrs
                 /\ Within1(ret.edge_azimuth, ret.azimuth)
                 /\ ret.edge_dip \in {44, 45}
                 /\ ret.azimuth \in {0, 90, 180, 270} =>
                       /\ ret.edge_azimuth = ret.azimuth
                       /\ ret.edge_dip = 45

\* the Edge from (1,1,1) to (3,4,0), azimuth 213, whose edge_azimuth is
\* not the azimuth
C23_Witness ==
    /\ op = "Edge"
    /\ args = <<C, P34>>
    /\ ret.attrs = EdgeAttrs
    /\ ret.azimuth = 213
    /\ ret.edge_azimuth # 213
    /\ Within1(ret.edge_azimuth, 213)

\* C24: of two Points, Edge(p1, p2) and Edge(p2, p1) have equal azimuth and
\* equal dip when the points differ in z, and azimuths 180 degrees apart
\* when they have the same z and differ in x or y.
C24_EndpointOrder ==
    (op = "Edge" /\ args[1].has /\ args[2].has /\ ret.attrs = EdgeAttrs) =>
        \E e \in {EdgeInit(args[2], args[1])} :
            /\ args[1].z # args[2].z =>
                  /\ e.azimuth = ret.azimuth
                  /\ e.dip = ret.dip
            /\ (args[1].z = args[2].z /\ EdgeInPlan) =>
                  e.azimuth - ret.azimuth \in {-180, 180}

\* an export operator has run
Exported == export.op # "none"

\* C25: an export operator reports INFO only when its export wrote the
\* output file, and reports ERROR when the host file is unsaved (the save
\* prompt is shown) or the writing failed.
C25_SuccessMeansWritten ==
    Exported =>
        /\ export.report = "INFO" => export.wrote
        /\ ~export.wrote => export.report = "ERROR"

\* the step is an execute of an operator of class c
Executes(c) ==
    /\ rt'.op = c
    /\ rt'.call \in {"execute", "update"}
    /\ rt'.ret # "none"

\* the step is a modal call of the running operator of class c
HandlesEvent(c) ==
    /\ handlers[c] > 0
    /\ rt'.op = c
    /\ rt'.call = "modal"

\* C26: of each class at most one operator is a modal handler, with one
\* timer, and _running is True exactly while there is one; execute while
\* _running is True returns CANCELLED and adds no timer and no handler;
\* _running becomes True only by an execute that returns RUNNING_MODAL and
\* False only by the cancel of the running operator.
C26_OneOperatorRunning ==
    /\ [](\A c \in Classes :
            /\ handlers[c] <= 1
            /\ timers[c] = handlers[c]
            /\ running[c] <=> handlers[c] = 1)
    /\ [][\A c \in Classes :
            /\ (running[c] /\ Executes(c)) =>
                  /\ rt'.ret = "CANCELLED"
                  /\ timers' = timers /\ handlers' = handlers
                  /\ running'[c]
            /\ (~running[c] /\ running'[c]) =>
                  Executes(c) /\ rt'.ret = "RUNNING_MODAL"
            /\ (running[c] /\ ~running'[c]) =>
                  HandlesEvent(c) /\ rt'.ret = "CANCELLED"]_vars

\* an execute has returned CANCELLED while the one operator of its class
\* goes on running
C26_Witness ==
    /\ rt.call \in {"execute", "update"}
    /\ rt.ret = "CANCELLED"
    /\ running[rt.op]
    /\ handlers[rt.op] = 1 /\ timers[rt.op] = 1

\* C27: after an update callback has returned, the two scene flags are
\* never both True.
C27_FlagsExclusive ==
    ~(real_time_update_histogram /\ real_time_update_stereonet)

\* the stereonet flag has been set while the histogram flag was True: the
\* callback has cleared it, and the histogram operator still runs
C27_Witness ==
    /\ rt.op = "stereonet" /\ rt.call = "update"
    /\ real_time_update_stereonet
    /\ ~real_time_update_histogram
    /\ running["histogram"]

\* C28: a modal call of a running operator whose flag is False removes
\* the timer, clears _running and returns CANCELLED without a redraw; with
\* events arriving, a running operator whose flag is False has stopped and
\* has no timer some time later, unless its flag was set again before it
\* handled an event; and when none runs, setting the flag starts one
\* unless drawing the chart raises.
C28_StopsWhenFlagCleared ==
    /\ [][\A c \in Classes :
            /\ (HandlesEvent(c) /\ ~Flag(c)) =>
                  /\ rt'.ret = "CANCELLED"
                  /\ ~rt'.drew /\ shown' = shown
                  /\ timers'[c] = 0 /\ handlers'[c] = 0
                  /\ ~running'[c]
            /\ (~running[c] /\ Executes(c) /\ rt'.ret # "raised") =>
                  /\ rt'.ret = "RUNNING_MODAL"
                  /\ running'[c] /\ timers'[c] = 1]_vars
    /\ \A c \in Classes :
          (running[c] /\ ~Flag(c)) ~>
              ((~running[c] /\ timers[c] = 0) \/ Flag(c))

\* a timer event has reached an operator whose flag is False: it has
\* stopped, and the chart of the other class is still shown
C28_Witness ==
    /\ rt.call = "modal" /\ rt.event = "TIMER"
    /\ rt.ret = "CANCELLED"
    /\ ~rt.drew
    /\ ~Flag(rt.op)
    /\ ~running[rt.op] /\ timers[rt.op] = 0
    /\ shown # rt.op /\ shown # "none"

\* C29: when material0 with a Principled BSDF node (for the light
\* operator) and the ruler layer (for the ruler operator) exist, after two
\* consecutive executions of ToggleLightSettingsOperator, the first of
\* which found is_custom_settings False, the render engine, samples,
\* ambient occlusion, film transparency, world colour and strength,
\* material inputs and the camera's lens and clip range have the values
\* they had before the first execution and is_custom_settings is False;
\* likewise after two consecutive executions of
\* ToggleRulerSettingsOperator the layer's colour, opacity and thickness
\* have their values from before the first and is_custom_ruler is False.
C29_ToggleRoundTrip ==
    /\ (tg.op = "light" /\ tg.pair = 2 /\ scene.material.kind = "ok") =>
          /\ scene.render = tg.before.render
          /\ scene.world = tg.before.world
          /\ scene.material = tg.before.material
          /\ scene.camera = tg.before.camera
          /\ ~my_light_settings.is_custom_settings
    /\ (tg.op = "ruler" /\ tg.pair = 2 /\ layer) =>
          /\ scene.ruler.color = tg.before.ruler.color
          /\ scene.ruler.opacity = tg.before.ruler.opacity
          /\ scene.ruler.thickness = tg.before.ruler.thickness
          /\ ~my_ruler_settings.is_custom_ruler

\* the light operator has run twice in a row on a scene with the user's
\* render, world, material and camera settings, after a round trip of the
\* ruler operator on a layer with the user's settings
C29_Witness ==
    /\ tg.op = "light" /\ tg.pair = 2 /\ tg.ret = "FINISHED"
    /\ tg.before.render = UserRender /\ tg.before.world = UserWorld
    /\ tg.before.material = UserMaterial /\ tg.before.camera = UserCamera
    /\ layer /\ scene.ruler.color = UserRuler.color
    /\ scene.ruler.thickness = UserRuler.thickness
    /\ ~scene.ruler.hide /\ ~my_ruler_settings.is_custom_ruler
    /\ my_ruler_settings.color = UserRuler.color

====
